---------------------------- MODULE Spec2Model ----------------------------
(***************************************************************************)
(* Gomoku engine (12x12, five in a row): the Board with its incremental    *)
(* Zobrist hash, the ThreatSolver, the move ordering and the iterative     *)
(* deepening alpha-beta search of SearchEngine.                            *)
(*                                                                         *)
(* Conventions.  A move is <<x, y>>.  Players are 0 (Black) and 1 (White), *)
(* the values of static_cast<int>(Player).  A board value is the record    *)
(* [bb, side_to_move, hashKey]; bb[p] is the bitboard of player p, kept as *)
(* the set of linear indices y*12+x whose bit is set.  A Zobrist key is a  *)
(* random 64-bit word in the code; here a hash is the set of key names     *)
(* whose words have been XORed an odd number of times, and XOR is the      *)
(* symmetric difference.  Every equality of hashes shown on these formal   *)
(* sums holds for the concrete words, whatever their values.               *)
(***************************************************************************)
EXTENDS Integers, Sequences, FiniteSets, TLC

VARIABLES
    board,            \* the Board the caller owns
    stack,            \* moves the caller has made and not undone
    snaps,            \* the board before each of those moves
    last,             \* the caller's last board operation
    tieRule,          \* how std::sort orders equal scores in this build
    transTable,       \* SearchEngine::transTable
    killerMoves,      \* SearchEngine::killerMoves
    history,          \* SearchEngine::history
    maxDepthReached,  \* SearchEngine::maxDepthReached
    expired,          \* the deadline timeEnd has passed: timeUp() returns true
    frames,           \* call stack: findBestMove, then the alphaBeta calls
    retval,           \* value returned by the alphaBeta call that last returned
    result,           \* what the last findBestMove call returned, and how
    ghost,            \* history of the current findBestMove call
    nodes             \* alphaBeta calls entered in the current findBestMove call

boardVars == <<board, stack, snaps, last>>
engineVars == <<tieRule, transTable, killerMoves, history, maxDepthReached, expired,
                frames, retval, result, ghost, nodes>>
vars == <<board, stack, snaps, last, tieRule, transTable, killerMoves, history,
          maxDepthReached, expired, frames, retval, result, ghost, nodes>>

\* ------------------------------------------------------------------------
\* Program constants
\* ------------------------------------------------------------------------
N == 12
Black == 0
White == 1
Coord == 0 .. (N - 1)
Players == {Black, White}

\* ------------------------------------------------------------------------
\* Bounds of the model
\* ------------------------------------------------------------------------
\* Longest sequence of not yet undone moves in the board-level specification.
MaxMoves == 5
\* The deadline of a findBestMove call passes before this many alphaBeta
\* calls have been entered.
MaxNodes == 120

\* ------------------------------------------------------------------------
\* Board
\* ------------------------------------------------------------------------
index(x, y) == y * N + x

OnBoard(x, y) == x >= 0 /\ x < N /\ y >= 0 /\ y < N

Other(p) == IF p = Black THEN White ELSE Black

\* zobristTable[x][y][p] and zobristSide, as key names.
zobristTable(x, y, p) == index(x, y) * 2 + p
zobristSide == N * N * 2

\* h ^= key
Xor(h, key) == IF key \in h THEN h \ {key} ELSE h \cup {key}

\* Board::Board(): White at (6,6),(5,5), Black at (6,5),(5,6), Black to move.
InitBoard ==
    [bb |-> [p \in Players |->
                IF p = White THEN {index(6, 6), index(5, 5)}
                             ELSE {index(6, 5), index(5, 6)}],
     side_to_move |-> Black,
     hashKey |-> Xor(Xor(Xor(Xor({}, zobristTable(6, 6, White)),
                                 zobristTable(5, 5, White)),
                             zobristTable(6, 5, Black)),
                         zobristTable(5, 6, Black))]

\* isOccupied reading only the Black stone set.
isOccupied_blackOnly(b, x, y) ==
    IF ~OnBoard(x, y) THEN TRUE
    ELSE index(x, y) \in b.bb[Black]

isOccupied(b, x, y) ==
    IF ~OnBoard(x, y) THEN TRUE
    ELSE index(x, y) \in (b.bb[Black] \cup b.bb[White])

getCellState(b, x, y) ==
    IF ~OnBoard(x, y) THEN -1
    ELSE IF index(x, y) \in b.bb[Black] THEN 1
    ELSE IF index(x, y) \in b.bb[White] THEN 2
    ELSE 0

\* makeMove's test reading only the stone set of the side to move.
makeMoveOk_ownSideOnly(b, x, y) ==
    OnBoard(x, y) /\ index(x, y) \notin b.bb[b.side_to_move]

\* The boolean result of Board::makeMove.
makeMoveOk(b, x, y) == OnBoard(x, y) /\ ~isOccupied(b, x, y)

\* makeMove without the side-marker update of the hash.
makeMove_noSideKey(b, x, y) ==
    IF ~makeMoveOk(b, x, y) THEN b
    ELSE LET playerIndex == b.side_to_move
         IN [bb |-> [b.bb EXCEPT ![playerIndex] = @ \cup {index(x, y)}],
             side_to_move |-> Other(b.side_to_move),
             hashKey |-> Xor(b.hashKey, zobristTable(x, y, playerIndex))]

\* makeMove that leaves the side to move as it was.
makeMove_keepsSide(b, x, y) ==
    IF ~makeMoveOk(b, x, y) THEN b
    ELSE LET playerIndex == b.side_to_move
         IN [bb |-> [b.bb EXCEPT ![playerIndex] = @ \cup {index(x, y)}],
             side_to_move |-> b.side_to_move,
             hashKey |-> Xor(Xor(b.hashKey, zobristTable(x, y, playerIndex)),
                             zobristSide)]

\* The board after Board::makeMove(x, y); unchanged when the move is rejected.
makeMove(b, x, y) ==
    IF ~makeMoveOk(b, x, y) THEN b
    ELSE LET playerIndex == b.side_to_move
         IN [bb |-> [b.bb EXCEPT ![playerIndex] = @ \cup {index(x, y)}],
             side_to_move |-> Other(b.side_to_move),
             hashKey |-> Xor(Xor(b.hashKey, zobristTable(x, y, playerIndex)),
                             zobristSide)]

\* unmakeMove that reads the player index before toggling the side back.
unmakeMove_staleSide(b, x, y) ==
    LET p == b.side_to_move
    IN [bb |-> [b.bb EXCEPT ![p] = @ \ {index(x, y)}],
        side_to_move |-> Other(b.side_to_move),
        hashKey |-> Xor(Xor(b.hashKey, zobristSide), zobristTable(x, y, p))]

\* The board after Board::unmakeMove(x, y).  No validation, as in the code.
unmakeMove(b, x, y) ==
    LET p == Other(b.side_to_move)
    IN [bb |-> [b.bb EXCEPT ![p] = @ \ {index(x, y)}],
        side_to_move |-> p,
        hashKey |-> Xor(Xor(b.hashKey, zobristSide), zobristTable(x, y, p))]

\* The four scan directions of checkWin and isWinningMove.
dirs == << <<1, 0>>, <<0, 1>>, <<1, 1>>, <<1, -1>> >>

\* Number of consecutive cells of the set s met from (x, y) on, stepping by
\* (dx, dy): the two while loops of checkWin.
RECURSIVE runFrom(_, _, _, _, _)
runFrom(s, x, y, dx, dy) ==
    IF OnBoard(x, y) /\ index(x, y) \in s
    THEN 1 + runFrom(s, x + dx, y + dy, dx, dy)
    ELSE 0

\* checkWin that forgets the backward extension.
checkWin_forwardOnly(b, player) ==
    \E y \in Coord, x \in Coord :
        /\ index(x, y) \in b.bb[player]
        /\ \E d \in 1 .. 4 :
              LET dx == dirs[d][1]
                  dy == dirs[d][2]
              IN 1 + runFrom(b.bb[player], x + dx, y + dy, dx, dy) >= 4

checkWin(b, player) ==
    \E y \in Coord, x \in Coord :
        /\ index(x, y) \in b.bb[player]
        /\ \E d \in 1 .. 4 :
              LET dx == dirs[d][1]
                  dy == dirs[d][2]
              IN 1 + runFrom(b.bb[player], x + dx, y + dy, dx, dy)
                   + runFrom(b.bb[player], x - dx, y - dy, -dx, -dy) >= 5

countStones(b, player) == Cardinality(b.bb[player])

\* Position k of the row-major enumeration (y outer, x inner), k in 1..144.
RowMajor == [k \in 1 .. (N * N) |-> <<(k - 1) % N, (k - 1) \div N>>]

\* getLegalMoves with the loops exchanged: x outer, y inner.
getLegalMoves_columnMajor(b) ==
    SelectSeq([k \in 1 .. (N * N) |-> <<(k - 1) \div N, (k - 1) % N>>],
              LAMBDA m : ~isOccupied(b, m[1], m[2]))

getLegalMoves(b) == SelectSeq(RowMajor, LAMBDA m : ~isOccupied(b, m[1], m[2]))

Min2(a, c) == IF a < c THEN a ELSE c
Max2(a, c) == IF a > c THEN a ELSE c

\* hasNeighbor looking at the four cells that share a side with (x, y).
hasNeighbor_fourWay(b, x, y) ==
    \E dy \in -1 .. 1, dx \in -1 .. 1 :
        /\ (dx = 0) # (dy = 0)
        /\ OnBoard(x + dx, y + dy)
        /\ isOccupied(b, x + dx, y + dy)

\* An occupied cell among the eight neighbours of (x, y).
hasNeighbor(b, x, y) ==
    \E dy \in -1 .. 1, dx \in -1 .. 1 :
        /\ ~(dx = 0 /\ dy = 0)
        /\ OnBoard(x + dx, y + dy)
        /\ isOccupied(b, x + dx, y + dy)

getCandidateMoves(b) ==
    LET occ == b.bb[Black] \cup b.bb[White]
        xs == { i % N : i \in occ }
        ys == { i \div N : i \in occ }
    IN IF occ = {} THEN << <<5, 5>> >>
       ELSE LET min_x == Max2(0, (CHOOSE v \in xs : \A w \in xs : v <= w) - 2)
                min_y == Max2(0, (CHOOSE v \in ys : \A w \in ys : v <= w) - 2)
                max_x == Min2(N - 1, (CHOOSE v \in xs : \A w \in xs : v >= w) + 2)
                max_y == Min2(N - 1, (CHOOSE v \in ys : \A w \in ys : v >= w) + 2)
                moves == SelectSeq(RowMajor, LAMBDA m :
                            /\ m[1] >= min_x /\ m[1] <= max_x
                            /\ m[2] >= min_y /\ m[2] <= max_y
                            /\ ~isOccupied(b, m[1], m[2])
                            /\ hasNeighbor(b, m[1], m[2]))
            IN IF moves = << >> THEN getLegalMoves(b) ELSE moves

\* ------------------------------------------------------------------------
\* Lines of the board, in the order both line scanners visit them: rows,
\* columns, diagonals k = -11..11, anti-diagonals s = 0..22.  A line is the
\* sequence of the linear indices of its cells.
\* ------------------------------------------------------------------------
Rows == [r \in 1 .. N |-> [c \in 1 .. N |-> index(c - 1, r - 1)]]
Cols == [c \in 1 .. N |-> [r \in 1 .. N |-> index(c - 1, r - 1)]]
Diags ==
    [t \in 1 .. (2 * N - 1) |->
        LET k == t - N
            xStart == Max2(0, k)
            yStart == Max2(0, -k)
            len == Min2(N - xStart, N - yStart)
        IN [i \in 1 .. len |-> index(xStart + (i - 1), yStart + (i - 1))]]
AntiDiags ==
    [t \in 1 .. (2 * N - 1) |->
        LET s == t - 1
            xStart == Max2(0, s - (N - 1))
            yStart == Min2(N - 1, s)
            len == Min2(yStart + 1, N - xStart)
        IN [i \in 1 .. len |-> index(xStart + (i - 1), yStart - (i - 1))]]
Lines == Rows \o Cols \o Diags \o AntiDiags

\* grid[y][x] of evaluatePlayer, by linear index: 1 for a stone of player,
\* -1 for a stone of the other side, 0 for an empty cell.
playerGrid(b, player) ==
    [i \in 0 .. (N * N - 1) |->
        IF i \in b.bb[Black] THEN (IF player = Black THEN 1 ELSE -1)
        ELSE IF i \in b.bb[White] THEN (IF player = White THEN 1 ELSE -1)
        ELSE 0]

\* ------------------------------------------------------------------------
\* Static evaluation
\* ------------------------------------------------------------------------
SCORE_FIVE == 100000000
SCORE_OPEN_FOUR == 10000000
SCORE_SIMPLE_FOUR == 1000000
SCORE_OPEN_THREE == 100000
SCORE_BROKEN_THREE == 10000
SCORE_OPEN_TWO == 1000
SCORE_CLOSED_TWO == 100

patternScore(count, leftOpen, rightOpen) ==
    IF count >= 5 THEN SCORE_FIVE
    ELSE IF count = 4 /\ leftOpen /\ rightOpen THEN SCORE_OPEN_FOUR
    ELSE IF count = 4 /\ (leftOpen \/ rightOpen) THEN SCORE_SIMPLE_FOUR
    ELSE IF count = 3 /\ leftOpen /\ rightOpen THEN SCORE_OPEN_THREE
    ELSE IF count = 3 /\ (leftOpen \/ rightOpen) THEN SCORE_BROKEN_THREE
    ELSE IF count = 2 /\ leftOpen /\ rightOpen THEN SCORE_OPEN_TWO
    ELSE IF count = 2 /\ (leftOpen \/ rightOpen) THEN SCORE_CLOSED_TWO
    ELSE 0

\* First position j >= i of the line at which the run of 1s that covers
\* position i has ended (Len(line) + 1 when it reaches the end of the line).
RECURSIVE runEnd(_, _, _)
runEnd(g, line, i) ==
    IF i <= Len(line) /\ g[line[i]] = 1 THEN runEnd(g, line, i + 1) ELSE i

\* The scan of one line by evaluatePlayer, from position i on; acc is the
\* running (score, longestRun, longestOpen, hasOpenFourDouble).
RECURSIVE scanLine(_, _, _, _)
scanLine(g, line, i, acc) ==
    IF i > Len(line) THEN acc
    ELSE IF g[line[i]] # 1 THEN scanLine(g, line, i + 1, acc)
    ELSE LET j == runEnd(g, line, i)
             count == j - i
             leftOpen == i - 1 >= 1 /\ g[line[i - 1]] = 0
             rightOpen == j <= Len(line) /\ g[line[j]] = 0
             openEnds == (IF leftOpen THEN 1 ELSE 0) + (IF rightOpen THEN 1 ELSE 0)
             longer == \/ count > acc.longestRun
                       \/ (count = acc.longestRun /\ openEnds > acc.longestOpenEnds)
         IN scanLine(g, line, j,
               [patternScore |-> acc.patternScore + patternScore(count, leftOpen, rightOpen),
                longestRun |-> IF longer THEN count ELSE acc.longestRun,
                longestOpenEnds |-> IF longer THEN openEnds ELSE acc.longestOpenEnds,
                hasOpenFourDouble |-> acc.hasOpenFourDouble
                                        \/ (count = 4 /\ leftOpen /\ rightOpen)])

\* The running result after two consecutive stretches of lines whose results
\* from a zero start are a and c: scores add up, and the longest run is
\* replaced only by a strictly longer run or an equally long, more open one.
mergeEval(a, c) ==
    LET longer == \/ c.longestRun > a.longestRun
                  \/ (c.longestRun = a.longestRun /\ c.longestOpenEnds > a.longestOpenEnds)
    IN [patternScore |-> a.patternScore + c.patternScore,
        longestRun |-> IF longer THEN c.longestRun ELSE a.longestRun,
        longestOpenEnds |-> IF longer THEN c.longestOpenEnds ELSE a.longestOpenEnds,
        hasOpenFourDouble |-> a.hasOpenFourDouble \/ c.hasOpenFourDouble]

zeroEval ==
    [patternScore |-> 0, longestRun |-> 0, longestOpenEnds |-> 0,
     hasOpenFourDouble |-> FALSE]

\* The scan of lines lo..hi, in order.
RECURSIVE scanLines(_, _, _)
scanLines(g, lo, hi) ==
    IF lo = hi THEN scanLine(g, Lines[lo], 1, zeroEval)
    ELSE LET mid == (lo + hi) \div 2
         IN mergeEval(scanLines(g, lo, mid), scanLines(g, mid + 1, hi))

evaluatePlayer(b, player) == scanLines(playerGrid(b, player), 1, Len(Lines))

DOUBLE_OPEN_FOUR_SCORE == 90000000

longestBias(r) == r.longestRun * r.longestRun * r.longestRun * 500 + r.longestOpenEnds * 20000

\* evaluate that applies the double-open-four override for myColor only.
evaluate_overrideForMeOnly(b, myColor) ==
    LET myEval == evaluatePlayer(b, myColor)
        oppEval == evaluatePlayer(b, Other(myColor))
    IN IF myEval.hasOpenFourDouble /\ ~oppEval.hasOpenFourDouble THEN DOUBLE_OPEN_FOUR_SCORE
       ELSE (myEval.patternScore - oppEval.patternScore)
            + (longestBias(myEval) - longestBias(oppEval))

evaluate(b, myColor) ==
    LET myEval == evaluatePlayer(b, myColor)
        oppEval == evaluatePlayer(b, Other(myColor))
    IN IF myEval.hasOpenFourDouble /\ ~oppEval.hasOpenFourDouble THEN DOUBLE_OPEN_FOUR_SCORE
       ELSE IF oppEval.hasOpenFourDouble /\ ~myEval.hasOpenFourDouble THEN -DOUBLE_OPEN_FOUR_SCORE
       ELSE (myEval.patternScore - oppEval.patternScore)
            + (longestBias(myEval) - longestBias(oppEval))

\* Cells that cellOf of isWinningMove maps to 1: those whose getCellState is
\* the colour of player.
ownCells(b, player) ==
    IF player = Black THEN b.bb[Black] ELSE b.bb[White] \ b.bb[Black]
\* isWinningMove counting the stones on one side of (x, y) only.
isWinningMove_forwardOnly(b, player, x, y) ==
    IF isOccupied(b, x, y) THEN FALSE
    ELSE \E d \in 1 .. 4 :
            LET dx == dirs[d][1]
                dy == dirs[d][2]
            IN 1 + runFrom(ownCells(b, player), x + dx, y + dy, dx, dy) >= 5

isWinningMove(b, player, x, y) ==
    IF isOccupied(b, x, y) THEN FALSE
    ELSE \E d \in 1 .. 4 :
            LET dx == dirs[d][1]
                dy == dirs[d][2]
            IN 1 + runFrom(ownCells(b, player), x + dx, y + dy, dx, dy)
                 + runFrom(ownCells(b, player), x - dx, y - dy, -dx, -dy) >= 5

\* ------------------------------------------------------------------------
\* Sorting.  std::sort with the comparator a.score > b.score leaves the
\* order of equal scores unspecified; tie selects one of two outcomes:
\* "keep" leaves equal elements in their input order, "flip" reverses them.
\* ------------------------------------------------------------------------
TieRules == {"keep", "flip"}

\* A sort that leaves the sequence as it is.
sortDescending_unsorted(seq, tie) == seq

\* seq is a sequence of records with a field score.
sortDescending(seq, tie) ==
    LET n == Len(seq)
        rank(i) ==
            Cardinality({ j \in 1 .. n : seq[j].score > seq[i].score })
            + Cardinality({ j \in 1 .. n :
                  /\ seq[j].score = seq[i].score
                  /\ IF tie = "keep" THEN j < i ELSE j > i })
            + 1
    IN [k \in 1 .. n |-> seq[CHOOSE i \in 1 .. n : rank(i) = k]]

\* ------------------------------------------------------------------------
\* ThreatSolver
\* ------------------------------------------------------------------------
OPEN_FOUR == 1000000

\* SIMPLE_FOUR at a quarter of the severity of an open four.
SIMPLE_FOUR_quarter == OPEN_FOUR \div 4

SIMPLE_FOUR == 500000
OPEN_THREE == 120000
\* The severity of an open three given to a three with one open end.
BROKEN_THREE_asOpen == OPEN_THREE

BROKEN_THREE == 60000

\* coordKey(x, y) is the linear index.
coordKey(x, y) == y * N + x

\* grid of buildGrid, by linear index: 1 attacker, -1 defender, 0 empty.
buildGrid(b, defender) ==
    LET attacker == Other(defender)
    IN [i \in 0 .. (N * N - 1) |->
          LET state == getCellState(b, i % N, i \div N)
          IN IF (state = 1 /\ attacker = Black) \/ (state = 2 /\ attacker = White) THEN 1
             ELSE IF (state = 1 /\ defender = Black) \/ (state = 2 /\ defender = White) THEN -1
             ELSE 0]

\* addMoveIfStronger that overwrites whatever the cell had.
addMoveIfStronger_lastWins(key, severity, bestSeverity) ==
    IF ~OnBoard(key % N, key \div N) THEN bestSeverity
    ELSE (key :> severity) @@ bestSeverity

\* bestSeverity is a function from cell keys to severities.
addMoveIfStronger(key, severity, bestSeverity) ==
    IF ~OnBoard(key % N, key \div N) THEN bestSeverity
    ELSE IF key \notin DOMAIN bestSeverity \/ severity > bestSeverity[key]
         THEN (key :> severity) @@ bestSeverity
         ELSE bestSeverity

\* The windows i, i+1, ... of one line (positions are 1-based here).
RECURSIVE processLine(_, _, _, _)
processLine(g, line, i, bestSeverity) ==
    IF i + 4 > Len(line) THEN bestSeverity
    ELSE LET val(j) == g[line[i + j]]
             defenderStones == Cardinality({ j \in 0 .. 4 : val(j) = -1 })
             attackerStones == Cardinality({ j \in 0 .. 4 : val(j) = 1 })
             emptyOffsets == SelectSeq(<<0, 1, 2, 3, 4>>, LAMBDA j : val(j) = 0)
             empties == Len(emptyOffsets)
             leftOpen == i - 1 >= 1 /\ g[line[i - 1]] = 0
             rightOpen == i + 5 <= Len(line) /\ g[line[i + 5]] = 0
             cellOfOffset(k) == line[i + emptyOffsets[k]]
             next ==
                 IF defenderStones > 0 THEN bestSeverity
                 ELSE IF attackerStones = 4 /\ empties = 1
                 THEN addMoveIfStronger(cellOfOffset(1),
                          IF leftOpen /\ rightOpen THEN OPEN_FOUR ELSE SIMPLE_FOUR,
                          bestSeverity)
                 ELSE IF attackerStones = 3 /\ empties = 2 /\ (leftOpen \/ rightOpen)
                 THEN LET severity == IF leftOpen /\ rightOpen THEN OPEN_THREE
                                      ELSE BROKEN_THREE
                      IN addMoveIfStronger(cellOfOffset(2), severity,
                             addMoveIfStronger(cellOfOffset(1), severity, bestSeverity))
                 ELSE bestSeverity
         IN processLine(g, line, i + 1, next)

\* bestSeverity after the entries of c have been offered to a, each through
\* addMoveIfStronger.
mergeSeverity(a, c) ==
    [k \in (DOMAIN a) \cup (DOMAIN c) |->
        IF k \notin DOMAIN a THEN c[k]
        ELSE IF k \notin DOMAIN c THEN a[k]
        ELSE IF c[k] > a[k] THEN c[k] ELSE a[k]]

emptySeverity == [k \in {} |-> 0]

\* bestSeverity after lines lo..hi.
RECURSIVE processLines(_, _, _)
processLines(g, lo, hi) ==
    IF lo = hi THEN processLine(g, Lines[lo], 1, emptySeverity)
    ELSE LET mid == (lo + hi) \div 2
         IN mergeSeverity(processLines(g, lo, mid), processLines(g, mid + 1, hi))

\* The bestSeverity map built by findBlockingMoves.
blockingSeverity(b, defender) == processLines(buildGrid(b, defender), 1, Len(Lines))

\* The keys of a map in increasing order.
keysAscending(f) ==
    LET ks == DOMAIN f
    IN [k \in 1 .. Cardinality(ks) |->
          CHOOSE v \in ks : Cardinality({ w \in ks : w < v }) = k - 1]

\* findBlockingMoves: the entries of the map as a vector of (move, severity),
\* sorted by descending severity.  The iteration order of the unordered map
\* is unspecified; the entries are taken by increasing key before sorting.
findBlockingMoves(b, defender, tie) ==
    LET bestSeverity == blockingSeverity(b, defender)
        ks == keysAscending(bestSeverity)
    IN sortDescending([k \in 1 .. Len(ks) |->
                          [move |-> <<ks[k] % N, ks[k] \div N>>,
                           severity |-> bestSeverity[ks[k]],
                           score |-> bestSeverity[ks[k]]]], tie)

\* ------------------------------------------------------------------------
\* Search tables
\* ------------------------------------------------------------------------
MAX_PLY == 64
\* A move on the board in place of the invalid move.
NoMove_origin == <<0, 0>>

NoMove == <<-1, -1>>
INT_MAX == 2147483647
INT_MIN == -INT_MAX - 1
KILLER_BONUS1 == 1000000
KILLER_BONUS2 == 500000

emptyKillers == [p \in 0 .. (MAX_PLY - 1) |-> <<NoMove, NoMove>>]

\* HistoryHeuristic: table[x][y], kept by linear index.
historyGet(h, m) ==
    IF OnBoard(m[1], m[2]) THEN h[index(m[1], m[2])] ELSE 0

historyIncrement(h, m, depth) ==
    IF OnBoard(m[1], m[2])
    THEN [h EXCEPT ![index(m[1], m[2])] = @ + depth * depth]
    ELSE h

historyReset == [i \in 0 .. (N * N - 1) |-> 0]

\* ------------------------------------------------------------------------
\* Move ordering
\* ------------------------------------------------------------------------
\* defensiveLookup of orderMoves: key -> largest severity in the list.
defensiveLookup(defensiveMoves) ==
    LET keys == { coordKey(defensiveMoves[k].move[1], defensiveMoves[k].move[2]) :
                    k \in 1 .. Len(defensiveMoves) }
    IN [key \in keys |->
          LET sevs == { defensiveMoves[k].severity : k \in
                        { j \in 1 .. Len(defensiveMoves) :
                            coordKey(defensiveMoves[j].move[1], defensiveMoves[j].move[2]) = key } }
          IN CHOOSE v \in sevs : \A w \in sevs : v >= w]

\* One iteration of the scoring loop of orderMoves on board b: the score of
\* move m and the board after the unmakeMove.
scoreMove(b, m, currentPlayer, myColor, ply, lookup, killers, hist) ==
    LET b1 == makeMove(b, m[1], m[2])
        winForCurrent == checkWin(b1, currentPlayer)
        oppCandidates == getCandidateMoves(b1)
        winForOpp == \E k \in 1 .. Len(oppCandidates) :
                        isWinningMove(b1, Other(currentPlayer),
                                      oppCandidates[k][1], oppCandidates[k][2])
        base == IF winForCurrent THEN 100000000
                ELSE IF winForOpp THEN -10000000
                ELSE evaluate(b1, myColor)
        dx == m[1] - 5
        dy == m[2] - 5
        key == m[2] * N + m[1]
        defensive == IF key \in DOMAIN lookup THEN lookup[key] ELSE 0
        killer == IF ply < MAX_PLY
                  THEN IF killers[ply][1] = m THEN KILLER_BONUS1
                       ELSE IF killers[ply][2] = m THEN KILLER_BONUS2
                       ELSE 0
                  ELSE 0
    IN [scored |-> << [score |-> base - (dx * dx + dy * dy) + defensive + killer
                                 + historyGet(hist, m),
                       move |-> m] >>,
        board |-> unmakeMove(b1, m[1], m[2])]

\* Iterations lo..hi of the scoring loop, started on board b.
RECURSIVE scoreMoves(_, _, _, _, _, _, _, _, _, _)
scoreMoves(b, moves, lo, hi, currentPlayer, myColor, ply, lookup, killers, hist) ==
    IF lo = hi
    THEN scoreMove(b, moves[lo], currentPlayer, myColor, ply, lookup, killers, hist)
    ELSE LET mid == (lo + hi) \div 2
             L == scoreMoves(b, moves, lo, mid, currentPlayer, myColor, ply,
                             lookup, killers, hist)
             R == scoreMoves(L.board, moves, mid + 1, hi, currentPlayer, myColor, ply,
                             lookup, killers, hist)
         IN [scored |-> L.scored \o R.scored, board |-> R.board]

\* orderMoves: the ordered moves and the board as the call leaves it.
orderMoves(b, currentPlayer, myColor, ply, killers, hist, tie) ==
    LET moves == getCandidateMoves(b)
        lookup == defensiveLookup(findBlockingMoves(b, currentPlayer, tie))
    IN IF moves = << >> THEN [moves |-> << >>, board |-> b]
       ELSE LET r == scoreMoves(b, moves, 1, Len(moves), currentPlayer, myColor, ply,
                                lookup, killers, hist)
                sorted == sortDescending(r.scored, tie)
            IN [moves |-> [k \in 1 .. Len(sorted) |-> sorted[k].move],
                board |-> r.board]

\* ------------------------------------------------------------------------
\* Board-level specification: a caller applies moves and undoes the most
\* recent one.
\* ------------------------------------------------------------------------
\* Cells the caller plays on: the two diagonals through the starting cross.
PlayCells ==
    { <<7, 4>>, <<4, 7>>, <<8, 3>>, <<3, 8>>,
      <<4, 4>>, <<7, 7>>, <<3, 3>> }

emptyTT == [k \in {} |-> 0]

noResult == [move |-> NoMove, path |-> "none"]
\* ghost: the board and side the call was made with, the first move of the
\* ordered root list, the best move recorded at the end of each completed
\* depth, the running best move of the depth the deadline interrupted, the
\* number of active calls when the deadline passed (0: it has not),
\* whether a stored bound has been read by a transposition probe, and
\* whether all three tables held entries of an earlier call when this call
\* was made.
noGhost == [entry |-> InitBoard, myColor |-> Black, rootFirst |-> NoMove,
            completed |-> << >>, interrupted |-> NoMove, expiredAt |-> 0,
            boundUsed |-> FALSE, stale |-> FALSE]

\* A freshly constructed SearchEngine, no call made yet.
EngineInit ==
    /\ transTable = emptyTT
    /\ killerMoves = emptyKillers
    /\ history = historyReset
    /\ maxDepthReached = 0
    /\ expired = FALSE
    /\ frames = << >>
    /\ retval = 0
    /\ result = noResult
    /\ ghost = noGhost
    /\ nodes = 0

InitB ==
    /\ board = InitBoard
    /\ stack = << >>
    /\ snaps = << >>
    /\ last = [op |-> "init"]
    /\ tieRule = "keep"
    /\ EngineInit

\* Arguments the caller also passes to makeMove: a column and a row outside
\* the board, and a cell of each colour of the starting cross.
RejectCells == { <<-1, 4>>, <<4, 12>>, <<5, 5>>, <<6, 5>> }

\* A call of Board::makeMove; last.ok is the value it returns.  The caller
\* keeps the moves that succeeded, to undo them later.
BoardMakeMove ==
    \E m \in PlayCells \cup RejectCells :
        /\ Len(stack) < MaxMoves
        /\ board' = makeMove(board, m[1], m[2])
        /\ last' = [op |-> "makeMove", m |-> m, ok |-> makeMoveOk(board, m[1], m[2])]
        /\ IF makeMoveOk(board, m[1], m[2])
           THEN /\ stack' = Append(stack, m)
                /\ snaps' = Append(snaps, board)
           ELSE UNCHANGED <<stack, snaps>>
        /\ UNCHANGED engineVars

BoardUnmakeMove ==
    /\ Len(stack) > 0
    /\ LET m == stack[Len(stack)]
       IN /\ board' = unmakeMove(board, m[1], m[2])
          /\ last' = [op |-> "unmakeMove", m |-> m]
    /\ stack' = SubSeq(stack, 1, Len(stack) - 1)
    /\ snaps' = SubSeq(snaps, 1, Len(snaps) - 1)
    /\ UNCHANGED engineVars

NextB == BoardMakeMove \/ BoardUnmakeMove

SpecB == InitB /\ [][NextB]_vars
\* getOpeningMove trying the four cells in the opposite order.
getOpeningMove_lastFirst(b, myColor) ==
    LET total == countStones(b, Black) + countStones(b, White)
        preferred == << <<4, 4>>, <<4, 7>>, <<7, 4>>, <<7, 7>> >>
        free == SelectSeq(preferred, LAMBDA m : ~isOccupied(b, m[1], m[2]))
    IN IF total = 4 /\ b.side_to_move = myColor /\ myColor = Black /\ free # << >>
       THEN free[1]
       ELSE NoMove

\* ------------------------------------------------------------------------
\* SearchEngine::findBestMove and SearchEngine::alphaBeta, one step per
\* stretch of code between two readings of the clock.
\* ------------------------------------------------------------------------
getOpeningMove(b, myColor) ==
    LET total == countStones(b, Black) + countStones(b, White)
        preferred == << <<7, 7>>, <<7, 4>>, <<4, 7>>, <<4, 4>> >>
        free == SelectSeq(preferred, LAMBDA m : ~isOccupied(b, m[1], m[2]))
    IN IF total = 4 /\ b.side_to_move = myColor /\ myColor = Black /\ free # << >>
       THEN free[1]
       ELSE NoMove

\* bestBlock that also replaces the kept block on an equal score.
RECURSIVE bestBlock_replacesOnTie(_, _, _, _, _, _)
bestBlock_replacesOnTie(b, opponentWins, i, best, bestScore, myColor) ==
    IF i > Len(opponentWins) THEN [move |-> best, board |-> b]
    ELSE LET block == opponentWins[i]
             b1 == makeMove(b, block[1], block[2])
             score == evaluate(b1, myColor)
             b2 == unmakeMove(b1, block[1], block[2])
         IN IF score >= bestScore
            THEN bestBlock_replacesOnTie(b2, opponentWins, i + 1, block, score, myColor)
            ELSE bestBlock_replacesOnTie(b2, opponentWins, i + 1, best, bestScore, myColor)

\* The loop over opponentWins of findBestMove from element i on: the block
\* kept at the end and the board as the loop leaves it.
RECURSIVE bestBlock(_, _, _, _, _, _)
bestBlock(b, opponentWins, i, best, bestScore, myColor) ==
    IF i > Len(opponentWins) THEN [move |-> best, board |-> b]
    ELSE LET block == opponentWins[i]
             b1 == makeMove(b, block[1], block[2])
             score == evaluate(b1, myColor)
             b2 == unmakeMove(b1, block[1], block[2])
         IN IF score > bestScore
            THEN bestBlock(b2, opponentWins, i + 1, block, score, myColor)
            ELSE bestBlock(b2, opponentWins, i + 1, best, bestScore, myColor)

CRITICAL_SEVERITY == 500000
WIN_THRESHOLD == 90000000

Top == frames[Len(frames)]
Popped == SubSeq(frames, 1, Len(frames) - 1)
WithTop(f) == [frames EXCEPT ![Len(frames)] = f]

\* A new activation of alphaBeta.  alphaIn and betaIn keep the arguments
\* alpha and beta as the caller passed them.
abFrame(depth, alpha, beta, currentPlayer, myColor, ply) ==
    [fn |-> "alphaBeta", pc |-> "enter", depth |-> depth, alpha |-> alpha,
     beta |-> beta, currentPlayer |-> currentPlayer, myColor |-> myColor,
     ply |-> ply, key |-> {}, ordered |-> << >>, idx |-> 0,
     bestValue |-> 0, bestMove |-> NoMove, alphaOrig |-> 0, betaOrig |-> 0,
     alphaIn |-> alpha, betaIn |-> beta]

\* findBestMove returns move.
fbReturn(move, path) ==
    /\ result' = [move |-> move, path |-> path]
    /\ frames' = << >>

\* findBestMove up to the start of iterative deepening: timer and tables
\* reset, opening book, immediate win, forced defence, urgent pattern
\* defence, root move ordering.
\* The tables are those passed: tt, killers, hist.
findBestMoveWith(myColor, tt, killers, hist) ==
        /\ frames = << >>
        /\ result.path = "none"
        /\ expired' = FALSE
        /\ maxDepthReached' = 0
        /\ transTable' = tt
        /\ history' = hist
        /\ killerMoves' = killers
        /\ retval' = 0
        /\ nodes' = 0
        /\ LET bookMove == getOpeningMove(board, myColor)
               legalMoves == getLegalMoves(board)
               myWins == SelectSeq(legalMoves,
                             LAMBDA m : isWinningMove(board, myColor, m[1], m[2]))
               opponent == Other(myColor)
               opponentWins == SelectSeq(legalMoves,
                                   LAMBDA m : isWinningMove(board, opponent, m[1], m[2]))
               blk == bestBlock(board, opponentWins, 1, opponentWins[1], INT_MIN, myColor)
               defensiveMoves == findBlockingMoves(board, myColor, tieRule)
               root == orderMoves(board, myColor, myColor, 0, killers, hist, tieRule)
               g == [entry |-> board, myColor |-> myColor, rootFirst |-> NoMove,
                     completed |-> << >>, interrupted |-> NoMove, expiredAt |-> 0,
                     boundUsed |-> FALSE,
                     stale |-> /\ transTable # emptyTT
                               /\ killerMoves # emptyKillers
                               /\ history # historyReset]
           IN IF bookMove # NoMove
              THEN /\ fbReturn(bookMove, "book")
                   /\ ghost' = g
                   /\ board' = board
              ELSE IF myWins # << >>
              THEN /\ fbReturn(myWins[1], "win")
                   /\ ghost' = g
                   /\ board' = board
              ELSE IF opponentWins # << >>
              THEN /\ fbReturn(blk.move, "block")
                   /\ ghost' = g
                   /\ board' = blk.board
              ELSE IF defensiveMoves # << >>
                      /\ defensiveMoves[1].severity >= CRITICAL_SEVERITY
              THEN /\ fbReturn(defensiveMoves[1].move, "threat")
                   /\ ghost' = g
                   /\ board' = board
              ELSE IF root.moves = << >>
              THEN /\ fbReturn(NoMove, "nomoves")
                   /\ ghost' = g
                   /\ board' = root.board
              ELSE /\ frames' = << [fn |-> "findBestMove", pc |-> "depth_top",
                                    myColor |-> myColor, rootMoves |-> root.moves,
                                    depth |-> 1, idx |-> 0,
                                    bestMove |-> NoMove, bestVal |-> INT_MIN,
                                    currentBestMove |-> NoMove,
                                    currentBestVal |-> INT_MIN,
                                    scored |-> << >>] >>
                   /\ result' = [move |-> NoMove, path |-> "running"]
                   /\ ghost' = [g EXCEPT !.rootFirst = root.moves[1]]
                   /\ board' = root.board
        /\ UNCHANGED <<stack, snaps, last, tieRule>>

\* A findBestMove call that keeps the tables the engine holds.
FB_Call_keepsTables ==
    \E myColor \in Players :
        findBestMoveWith(myColor, transTable, killerMoves, history)

\* A findBestMove call: startTimer, transTable.clear(), history.reset(), the
\* killer slots set to (-1,-1), then the rest of the function.
FB_Call ==
    \E myColor \in Players :
        findBestMoveWith(myColor, emptyTT, emptyKillers, historyReset)

\* The clock passes the deadline.
Expire ==
    /\ frames # << >>
    /\ ~expired
    /\ expired' = TRUE
    /\ ghost' = [ghost EXCEPT !.expiredAt = Len(frames)]
    /\ UNCHANGED <<board, stack, snaps, last, tieRule, transTable, killerMoves, history,
                   maxDepthReached, frames, retval, result, nodes>>

\* for (depth = 1; ; ++depth) { if (timeUp()) break; ...
FB_DepthTop ==
    /\ frames # << >>
    /\ Top.fn = "findBestMove" /\ Top.pc = "depth_top"
    /\ IF expired
       THEN /\ fbReturn(Top.bestMove, "timeout")
            /\ ghost' = [ghost EXCEPT !.interrupted = Top.bestMove]
            /\ UNCHANGED maxDepthReached
       ELSE /\ maxDepthReached' = Top.depth
            /\ frames' = WithTop([Top EXCEPT !.pc = "root_top", !.idx = 1,
                                     !.currentBestMove = Top.rootMoves[1],
                                     !.currentBestVal = INT_MIN])
            /\ UNCHANGED <<result, ghost>>
    /\ UNCHANGED <<board, stack, snaps, last, tieRule, transTable, killerMoves, history,
                   expired, retval, nodes>>

\* for (m : rootMoves) { if (timeUp()) break; makeMove; alphaBeta(...)
FB_RootTop ==
    /\ frames # << >>
    /\ Top.fn = "findBestMove" /\ Top.pc = "root_top"
    /\ IF Top.idx > Len(Top.rootMoves) \/ expired
       THEN /\ frames' = WithTop([Top EXCEPT !.pc = "depth_end"])
            /\ board' = board
       ELSE LET m == Top.rootMoves[Top.idx]
            IN /\ board' = makeMove(board, m[1], m[2])
               /\ frames' = Append(WithTop([Top EXCEPT !.pc = "root_ret"]),
                                   abFrame(Top.depth - 1, INT_MIN + 1, INT_MAX - 1,
                                           Other(Top.myColor), Top.myColor, 1))
    /\ UNCHANGED <<stack, snaps, last, tieRule, transTable, killerMoves, history,
                   maxDepthReached, expired, retval, result, ghost, nodes>>

\* ... unmakeMove; if (timeUp()) break; if (val > 90000000) return m; ... }
FB_RootRet ==
    /\ frames # << >>
    /\ Top.fn = "findBestMove" /\ Top.pc = "root_ret"
    /\ LET m == Top.rootMoves[Top.idx]
           val == retval
       IN /\ board' = unmakeMove(board, m[1], m[2])
          /\ IF expired
             THEN /\ frames' = WithTop([Top EXCEPT !.pc = "depth_end"])
                  /\ UNCHANGED result
             ELSE IF val > WIN_THRESHOLD
             THEN fbReturn(m, "forced")
             ELSE /\ frames' = WithTop(
                        [Top EXCEPT !.pc = "root_top", !.idx = @ + 1,
                           !.currentBestVal = IF val > @ THEN val ELSE @,
                           !.currentBestMove =
                               IF val > Top.currentBestVal THEN m ELSE @])
                  /\ UNCHANGED result
    /\ UNCHANGED <<stack, snaps, last, tieRule, transTable, killerMoves, history,
                   maxDepthReached, expired, retval, ghost, nodes>>

\* FB_DepthEnd that hands back the running best move of the interrupted
\* depth.
FB_DepthEnd_returnsRunningBest ==
    /\ frames # << >>
    /\ Top.fn = "findBestMove" /\ Top.pc = "depth_end"
    /\ IF ~expired
       THEN /\ frames' = WithTop([Top EXCEPT !.pc = "rescore_top", !.idx = 1,
                                     !.bestVal = Top.currentBestVal,
                                     !.bestMove = Top.currentBestMove,
                                     !.scored = << >>])
            /\ ghost' = [ghost EXCEPT !.completed = Append(@, Top.currentBestMove)]
            /\ UNCHANGED result
       ELSE /\ fbReturn(Top.currentBestMove, "timeout")
            /\ ghost' = [ghost EXCEPT !.interrupted = Top.currentBestMove]
    /\ UNCHANGED <<board, stack, snaps, last, tieRule, transTable, killerMoves, history,
                   maxDepthReached, expired, retval, nodes>>

\* if (!timeUp()) { bestVal = ...; bestMove = ...; <re-score> } else break;
FB_DepthEnd ==
    /\ frames # << >>
    /\ Top.fn = "findBestMove" /\ Top.pc = "depth_end"
    /\ IF ~expired
       THEN /\ frames' = WithTop([Top EXCEPT !.pc = "rescore_top", !.idx = 1,
                                     !.bestVal = Top.currentBestVal,
                                     !.bestMove = Top.currentBestMove,
                                     !.scored = << >>])
            /\ ghost' = [ghost EXCEPT !.completed = Append(@, Top.currentBestMove)]
            /\ UNCHANGED result
       ELSE /\ fbReturn(Top.bestMove, "timeout")
            /\ ghost' = [ghost EXCEPT !.interrupted = Top.currentBestMove]
    /\ UNCHANGED <<board, stack, snaps, last, tieRule, transTable, killerMoves, history,
                   maxDepthReached, expired, retval, nodes>>

\* The re-scoring loop: for (m : rootMoves) { makeMove; alphaBeta(...)
\* and, after the loop, the sort and ++depth.
FB_RescoreTop ==
    /\ frames # << >>
    /\ Top.fn = "findBestMove" /\ Top.pc = "rescore_top"
    /\ IF Top.idx > Len(Top.rootMoves)
       THEN LET sorted == sortDescending(Top.scored, tieRule)
            IN /\ frames' = WithTop(
                      [Top EXCEPT !.pc = "depth_top", !.depth = @ + 1,
                         !.rootMoves = [k \in 1 .. Len(sorted) |-> sorted[k].move]])
               /\ board' = board
       ELSE LET m == Top.rootMoves[Top.idx]
            IN /\ board' = makeMove(board, m[1], m[2])
               /\ frames' = Append(WithTop([Top EXCEPT !.pc = "rescore_ret"]),
                                   abFrame(Top.depth - 1, INT_MIN + 1, INT_MAX - 1,
                                           Other(Top.myColor), Top.myColor, 1))
    /\ UNCHANGED <<stack, snaps, last, tieRule, transTable, killerMoves, history,
                   maxDepthReached, expired, retval, result, ghost, nodes>>

\* ... unmakeMove; scored.push_back({val, m}); }
FB_RescoreRet ==
    /\ frames # << >>
    /\ Top.fn = "findBestMove" /\ Top.pc = "rescore_ret"
    /\ LET m == Top.rootMoves[Top.idx]
       IN /\ board' = unmakeMove(board, m[1], m[2])
          /\ frames' = WithTop([Top EXCEPT !.pc = "rescore_top", !.idx = @ + 1,
                                   !.scored = Append(@, [score |-> retval, move |-> m])])
    /\ UNCHANGED <<stack, snaps, last, tieRule, transTable, killerMoves, history,
                   maxDepthReached, expired, retval, result, ghost, nodes>>

\* ttProbe that accepts an entry of any depth.
ttProbe_anyDepth(tt, key, depth, alpha, beta) ==
    IF key \in DOMAIN tt
    THEN LET entry == tt[key]
             a == IF entry.flag = 1 /\ entry.score > alpha THEN entry.score ELSE alpha
             c == IF entry.flag = 2 /\ entry.score < beta THEN entry.score ELSE beta
         IN [hit |-> entry.flag = 0 \/ a >= c, score |-> entry.score,
             alpha |-> a, beta |-> c, bound |-> entry.flag # 0]
    ELSE [hit |-> FALSE, score |-> 0, alpha |-> alpha, beta |-> beta, bound |-> FALSE]

\* The transposition probe: what alphaBeta does with the entry for key, if
\* any.  hit means the stored score is returned at once, bound that the
\* entry read was a lower or an upper bound.
ttProbe(tt, key, depth, alpha, beta) ==
    IF key \in DOMAIN tt /\ tt[key].depth >= depth
    THEN LET entry == tt[key]
             a == IF entry.flag = 1 /\ entry.score > alpha THEN entry.score ELSE alpha
             c == IF entry.flag = 2 /\ entry.score < beta THEN entry.score ELSE beta
         IN [hit |-> entry.flag = 0 \/ a >= c, score |-> entry.score,
             alpha |-> a, beta |-> c, bound |-> entry.flag # 0]
    ELSE [hit |-> FALSE, score |-> 0, alpha |-> alpha, beta |-> beta, bound |-> FALSE]

\* The bound flag of the entry to store: 2 upper, 1 lower, 0 exact.
ttFlag(bestValue, alphaOrig, betaOrig) ==
    IF bestValue <= alphaOrig THEN 2
    ELSE IF bestValue >= betaOrig THEN 1
    ELSE 0
\* ttStore that records the depth of the iteration instead of the remaining
\* depth of the node.
ttStore_iterationDepth(tt, f) ==
    (f.key :> [depth |-> maxDepthReached, score |-> f.bestValue,
               flag |-> ttFlag(f.bestValue, f.alphaOrig, f.betaOrig),
               bestMove |-> f.bestMove]) @@ tt

\* transTable[key] = newEntry
ttStore(tt, f) ==
    (f.key :> [depth |-> f.depth, score |-> f.bestValue,
               flag |-> ttFlag(f.bestValue, f.alphaOrig, f.betaOrig),
               bestMove |-> f.bestMove]) @@ tt
\* killerUpdate that shifts the slots on every cutoff.
killerUpdate_alwaysShifts(killers, ply, m) ==
    IF ply < MAX_PLY
    THEN [killers EXCEPT ![ply] = <<m, killers[ply][1]>>]
    ELSE killers

\* The killer slots of ply after a cutoff by move m.
killerUpdate(killers, ply, m) ==
    IF ply < MAX_PLY /\ killers[ply][1] # m
    THEN [killers EXCEPT ![ply] = <<m, killers[ply][1]>>]
    ELSE killers

\* alphaBeta returns v to its caller.
abReturn(v) ==
    /\ retval' = v
    /\ frames' = Popped
\* winScore with the remaining depth as the penalty.
winScore_byRemainingDepth(depth) == 100000000 - depth

\* The value of a position in which myColor has five in a row, at remaining
\* depth depth; a position in which the opponent has five gets the negative
\* of it, -100000000 + (maxDepthReached - depth).
winScore(depth) == 100000000 - (maxDepthReached - depth)

\* alphaBeta from its entry to the start of the move loop.
AB_Enter ==
    /\ frames # << >>
    /\ Top.fn = "alphaBeta" /\ Top.pc = "enter"
    /\ expired \/ nodes < MaxNodes
    /\ nodes' = IF expired THEN nodes ELSE nodes + 1
    /\ LET f == Top
           opponent == Other(f.myColor)
           key == board.hashKey
           probe == ttProbe(transTable, key, f.depth, f.alpha, f.beta)
           candidateMoves == getCandidateMoves(board)
           om == orderMoves(board, f.currentPlayer, f.myColor, f.ply,
                            killerMoves, history, tieRule)
       IN /\ IF expired
             THEN abReturn(0) /\ board' = board
             ELSE IF checkWin(board, f.myColor)
             THEN abReturn(winScore(f.depth)) /\ board' = board
             ELSE IF checkWin(board, opponent)
             THEN abReturn(-winScore(f.depth)) /\ board' = board
             ELSE IF f.depth <= 0
             THEN abReturn(evaluate(board, f.myColor)) /\ board' = board
             ELSE IF probe.hit
             THEN abReturn(probe.score) /\ board' = board
             ELSE IF candidateMoves = << >>
             THEN abReturn(evaluate(board, f.myColor)) /\ board' = board
             ELSE /\ frames' = WithTop(
                        [f EXCEPT !.pc = "loop_top", !.key = key,
                           !.ordered = om.moves, !.idx = 1,
                           !.alpha = probe.alpha, !.beta = probe.beta,
                           !.alphaOrig = probe.alpha, !.betaOrig = probe.beta,
                           !.bestMove = NoMove,
                           !.bestValue = IF f.currentPlayer = f.myColor
                                         THEN INT_MIN ELSE INT_MAX])
                  /\ board' = om.board
                  /\ UNCHANGED retval
          /\ ghost' = IF /\ ~expired
                         /\ ~checkWin(board, f.myColor)
                         /\ ~checkWin(board, opponent)
                         /\ f.depth > 0
                         /\ probe.bound
                      THEN [ghost EXCEPT !.boundUsed = TRUE]
                      ELSE ghost
    /\ UNCHANGED <<stack, snaps, last, tieRule, transTable, killerMoves, history,
                   maxDepthReached, expired, result>>
\* AB_LoopTop that hands its own currentPlayer on to the recursive call.
AB_LoopTop_samePlayer ==
    /\ frames # << >>
    /\ Top.fn = "alphaBeta" /\ Top.pc = "loop_top"
    /\ LET f == Top
       IN IF f.idx > Len(f.ordered) \/ expired
          THEN /\ transTable' = ttStore(transTable, f)
               /\ abReturn(f.bestValue)
               /\ board' = board
          ELSE LET m == f.ordered[f.idx]
               IN /\ board' = makeMove(board, m[1], m[2])
                  /\ frames' = Append(WithTop([f EXCEPT !.pc = "child_ret"]),
                                      abFrame(f.depth - 1, f.alpha, f.beta,
                                              f.currentPlayer, f.myColor,
                                              f.ply + 1))
                  /\ UNCHANGED <<transTable, retval>>
    /\ UNCHANGED <<stack, snaps, last, tieRule, killerMoves, history,
                   maxDepthReached, expired, result, ghost, nodes>>

\* for (m : ordered) { if (timeUp()) break; makeMove; alphaBeta(...)
\* and, when the loop is left here, the store and the return.
AB_LoopTop ==
    /\ frames # << >>
    /\ Top.fn = "alphaBeta" /\ Top.pc = "loop_top"
    /\ LET f == Top
       IN IF f.idx > Len(f.ordered) \/ expired
          THEN /\ transTable' = ttStore(transTable, f)
               /\ abReturn(f.bestValue)
               /\ board' = board
          ELSE LET m == f.ordered[f.idx]
               IN /\ board' = makeMove(board, m[1], m[2])
                  /\ frames' = Append(WithTop([f EXCEPT !.pc = "child_ret"]),
                                      abFrame(f.depth - 1, f.alpha, f.beta,
                                              Other(f.currentPlayer), f.myColor,
                                              f.ply + 1))
                  /\ UNCHANGED <<transTable, retval>>
    /\ UNCHANGED <<stack, snaps, last, tieRule, killerMoves, history,
                   maxDepthReached, expired, result, ghost, nodes>>

\* AB_ChildRet that leaves on an expired deadline before the unmakeMove.
AB_ChildRet_returnsBeforeUndo ==
    /\ frames # << >>
    /\ Top.fn = "alphaBeta" /\ Top.pc = "child_ret"
    /\ LET f == Top
           m == f.ordered[f.idx]
           val == retval
           maxNode == f.currentPlayer = f.myColor
           better == IF maxNode THEN val > f.bestValue ELSE val < f.bestValue
           bestValue == IF better THEN val ELSE f.bestValue
           bestMove == IF better THEN m ELSE f.bestMove
           alpha == IF maxNode /\ bestValue > f.alpha THEN bestValue ELSE f.alpha
           beta == IF ~maxNode /\ bestValue < f.beta THEN bestValue ELSE f.beta
           f2 == [f EXCEPT !.bestValue = bestValue, !.bestMove = bestMove,
                           !.alpha = alpha, !.beta = beta]
       IN IF expired
          THEN /\ abReturn(0)
               /\ board' = board
               /\ UNCHANGED <<transTable, killerMoves, history>>
          ELSE /\ board' = unmakeMove(board, m[1], m[2])
               /\ IF alpha >= beta
                  THEN /\ killerMoves' = killerUpdate(killerMoves, f.ply, m)
                       /\ history' = historyIncrement(history, m, f.depth)
                       /\ transTable' = ttStore(transTable, f2)
                       /\ abReturn(bestValue)
                  ELSE /\ frames' = WithTop([f2 EXCEPT !.pc = "loop_top", !.idx = @ + 1])
                       /\ UNCHANGED <<transTable, killerMoves, history, retval>>
    /\ UNCHANGED <<stack, snaps, last, tieRule, maxDepthReached, expired, result,
                   ghost, nodes>>

\* ... unmakeMove; if (timeUp()) return 0; best value, window, cutoff ... }
AB_ChildRet ==
    /\ frames # << >>
    /\ Top.fn = "alphaBeta" /\ Top.pc = "child_ret"
    /\ LET f == Top
           m == f.ordered[f.idx]
           val == retval
           maxNode == f.currentPlayer = f.myColor
           better == IF maxNode THEN val > f.bestValue ELSE val < f.bestValue
           bestValue == IF better THEN val ELSE f.bestValue
           bestMove == IF better THEN m ELSE f.bestMove
           alpha == IF maxNode /\ bestValue > f.alpha THEN bestValue ELSE f.alpha
           beta == IF ~maxNode /\ bestValue < f.beta THEN bestValue ELSE f.beta
           f2 == [f EXCEPT !.bestValue = bestValue, !.bestMove = bestMove,
                           !.alpha = alpha, !.beta = beta]
       IN /\ board' = unmakeMove(board, m[1], m[2])
          /\ IF expired
             THEN /\ abReturn(0)
                  /\ UNCHANGED <<transTable, killerMoves, history>>
             ELSE IF alpha >= beta
             THEN /\ killerMoves' = killerUpdate(killerMoves, f.ply, m)
                  /\ history' = historyIncrement(history, m, f.depth)
                  /\ transTable' = ttStore(transTable, f2)
                  /\ abReturn(bestValue)
             ELSE /\ frames' = WithTop([f2 EXCEPT !.pc = "loop_top", !.idx = @ + 1])
                  /\ UNCHANGED <<transTable, killerMoves, history, retval>>
    /\ UNCHANGED <<stack, snaps, last, tieRule, maxDepthReached, expired, result,
                   ghost, nodes>>

\* ------------------------------------------------------------------------
\* Positions findBestMove is called on.  Each is the board at the end of a
\* game played from the initial position with Board::makeMove.
\* ------------------------------------------------------------------------
InitialCells == InitBoard.bb[Black] \cup InitBoard.bb[White]

\* The elements of a set of cells in increasing order.
ascending(S) ==
    [k \in 1 .. Cardinality(S) |->
        CHOOSE v \in S : Cardinality({ w \in S : w < v }) = k - 1]

\* The game in which Black plays the cells of blacks and White those of
\* whites, each in increasing order, in turn, Black first.
gameOf(blacks, whites) ==
    LET bs == ascending(blacks)
        ws == ascending(whites)
    IN [k \in 1 .. (Len(bs) + Len(ws)) |->
          LET i == IF k % 2 = 1 THEN bs[(k + 1) \div 2] ELSE ws[k \div 2]
          IN <<i % N, i \div N>>]

\* The board after moves lo..hi of game have been made on b; the game stops
\* at a move that makeMove rejects.
RECURSIVE playMoves(_, _, _, _)
playMoves(b, game, lo, hi) ==
    IF lo > hi THEN b
    ELSE IF lo = hi THEN makeMove(b, game[lo][1], game[lo][2])
    ELSE LET mid == (lo + hi) \div 2
             L == playMoves(b, game, lo, mid)
         IN IF makeMoveOk(L, game[mid + 1][1], game[mid + 1][2])
            THEN playMoves(L, game, mid + 1, hi)
            ELSE L

positionOf(blacks, whites) ==
    LET game == gameOf(blacks, whites)
    IN playMoves(InitBoard, game, 1, Len(game))

\* A colouring of the whole board without five in a row: the cells of p.
DrawPattern(p) ==
    { i \in 0 .. (N * N - 1) : (((i % N) + 2 * (i \div N)) % 4 < 2) <=> (p = Black) }

\* The drawn board with the colour of some cells exchanged and some cells
\* still empty.
nearFull(toWhite, toBlack, empties) ==
    positionOf((((DrawPattern(Black) \ toWhite) \cup toBlack) \ empties) \ InitialCells,
               (((DrawPattern(White) \ toBlack) \cup toWhite) \ empties) \ InitialCells)

\* Both sides have an open four on a diagonal; Black to move.
BothCanWin == positionOf({index(7, 4), index(4, 7)}, {index(4, 4), index(7, 7)})

\* Black has a four closed by White at (3,8); White to move.
OneThreat == positionOf({index(7, 4), index(4, 7)}, {index(3, 8)})

\* Black has an open four; the position is symmetric in the main diagonal,
\* so both blocks evaluate alike.  White to move.
TwoThreatsEven == positionOf({index(7, 4), index(4, 7)}, {index(4, 4)})

\* Black has an open four; the block at (3,8) joins the white stone at (3,7).
TwoThreatsUneven == positionOf({index(7, 4), index(4, 7)}, {index(3, 7)})

\* Three cells left, White to move: (0,0) makes two fours at once.
DoubleFour == nearFull({1, 24}, {31, 60, 122, 141}, {0, 4, 48})

\* Four cells left near the lower edge, Black to move, nobody can win.
FourLeft == nearFull({}, {}, {110, 111, 113, 137})

\* No cell left.
FullBoard == nearFull({}, {}, {})

Scenarios ==
    { InitBoard, BothCanWin, OneThreat, TwoThreatsEven, TwoThreatsUneven,
      DoubleFour, FourLeft, FullBoard }

InitS ==
    /\ board \in Scenarios
    /\ stack = << >>
    /\ snaps = << >>
    /\ last = [op |-> "init"]
    /\ tieRule \in TieRules
    /\ EngineInit

NextS ==
    \/ FB_Call
    \/ Expire
    \/ FB_DepthTop
    \/ FB_RootTop
    \/ FB_RootRet
    \/ FB_DepthEnd
    \/ FB_RescoreTop
    \/ FB_RescoreRet
    \/ AB_Enter
    \/ AB_LoopTop
    \/ AB_ChildRet

SpecS == InitS /\ [][NextS]_vars

\* ------------------------------------------------------------------------
\* The engine asked twice: the TURN handler plays the move it got and the
\* same engine is asked again on the board that results.
\* ------------------------------------------------------------------------
\* The rest of the TURN handler after findBestMove has returned for the
\* side to move: the first candidate, or (0,0), replaces a move with a
\* negative coordinate, and the move is played.
TURN_PlaceMove ==
    /\ result.path \notin {"none", "running"}
    /\ ghost.myColor = ghost.entry.side_to_move
    /\ last.op = "init"
    /\ LET candidates == getCandidateMoves(board)
           myMove == IF result.move[1] < 0 \/ result.move[2] < 0
                     THEN IF candidates # << >> THEN candidates[1] ELSE <<0, 0>>
                     ELSE result.move
       IN /\ board' = makeMove(board, myMove[1], myMove[2])
          /\ last' = [op |-> "TURN", m |-> myMove]
    /\ result' = noResult
    /\ UNCHANGED <<stack, snaps, tieRule, transTable, killerMoves, history,
                   maxDepthReached, expired, frames, retval, ghost, nodes>>

InitR ==
    /\ board = DoubleFour
    /\ stack = << >>
    /\ snaps = << >>
    /\ last = [op |-> "init"]
    /\ tieRule = "keep"
    /\ EngineInit

NextR ==
    \/ FB_Call
    \/ Expire
    \/ FB_DepthTop
    \/ FB_RootTop
    \/ FB_RootRet
    \/ FB_DepthEnd
    \/ FB_RescoreTop
    \/ FB_RescoreRet
    \/ AB_Enter
    \/ AB_LoopTop
    \/ AB_ChildRet
    \/ TURN_PlaceMove

SpecR == InitR /\ [][NextR]_vars

\* ------------------------------------------------------------------------
\* ThreatSolver::findBlockingMoves applied to positions with stones along
\* the upper and the left edge, to the positions findBestMove is called on
\* and to the cleared board.
\* ------------------------------------------------------------------------
\* Cells Black holds: three or four of these.
EdgeCells == { index(x, 0) : x \in 0 .. 5 } \cup { index(0, y) : y \in 1 .. 3 }

\* Cells White holds, far from the edges Black plays on, in the order White
\* takes them.
FarCells ==
    << index(7, 11), index(8, 11), index(9, 11), index(11, 11), index(11, 10),
       index(11, 9) >>

\* White's stones in a game in which Black plays n stones and moves last;
\* when blocked, one of them stands at (6,0).
whitesFor(n, blocked) ==
    IF blocked THEN {index(6, 0)} \cup { FarCells[k] : k \in 1 .. (n - 2) }
    ELSE { FarCells[k] : k \in 1 .. (n - 1) }

\* Black holds (1,0)..(4,0) and (0,1)..(0,3): the corner cell lies on a four
\* and on a three.
CornerCrossing ==
    positionOf({ index(x, 0) : x \in 1 .. 4 } \cup { index(0, y) : y \in 1 .. 3 },
               whitesFor(7, FALSE))

\* The board after unmakeMove has taken back the four stones of the
\* constructor: no stone left, Black to move.
ClearedBoard ==
    unmakeMove(unmakeMove(unmakeMove(unmakeMove(InitBoard, 5, 5), 6, 5), 6, 6), 5, 6)

ThreatBoards ==
    { positionOf(B, whitesFor(Cardinality(B), blocked)) :
        B \in { S \in SUBSET EdgeCells : Cardinality(S) \in {3, 4} },
        blocked \in BOOLEAN }
    \cup Scenarios \cup {CornerCrossing, ClearedBoard}

InitT ==
    /\ board \in ThreatBoards
    /\ stack = << >>
    /\ snaps = << >>
    /\ last = [op |-> "init"]
    /\ tieRule \in TieRules
    /\ EngineInit

\* The call of findBlockingMoves on the position, for either defender;
\* last.moves is the vector it returns.
TS_FindBlockingMoves ==
    \E defender \in Players :
        /\ last.op = "init"
        /\ last' = [op |-> "findBlockingMoves", defender |-> defender,
                    moves |-> findBlockingMoves(board, defender, tieRule)]
        /\ UNCHANGED <<board, stack, snaps>>
        /\ UNCHANGED engineVars

\* The call of getCandidateMoves on the position; last.moves is the vector
\* it returns.
TS_GetCandidateMoves ==
    /\ last.op = "init"
    /\ last' = [op |-> "getCandidateMoves", moves |-> getCandidateMoves(board)]
    /\ UNCHANGED <<board, stack, snaps>>
    /\ UNCHANGED engineVars

NextT == TS_FindBlockingMoves \/ TS_GetCandidateMoves

SpecT == InitT /\ [][NextT]_vars

\* ------------------------------------------------------------------------
\* SearchEngine::isWinningMove and SearchEngine::evaluate applied to the
\* positions above and to a line of six with a gap.
\* ------------------------------------------------------------------------
\* Black holds (0,0),(1,0),(2,0) and (4,0),(5,0): a stone at (3,0) makes six.
GapOfSix ==
    positionOf({ index(x, 0) : x \in {0, 1, 2, 4, 5} }, whitesFor(5, FALSE))

EvalBoards == ThreatBoards \cup {GapOfSix}

\* The arguments x and y isWinningMove is called with: the cells of the
\* board and the ring of cells around it.
ProbeCells == (-1 .. N) \X (-1 .. N)

InitE ==
    /\ board \in EvalBoards
    /\ stack = << >>
    /\ snaps = << >>
    /\ last = [op |-> "init"]
    /\ tieRule = "keep"
    /\ EngineInit

\* isWinningMove called for player with every cell; last.cells are the
\* cells it is true for.
E_IsWinningMove ==
    \E player \in Players :
        /\ last.op = "init"
        /\ last' = [op |-> "isWinningMove", player |-> player,
                    cells |-> { c \in ProbeCells :
                                  isWinningMove(board, player, c[1], c[2]) }]
        /\ UNCHANGED <<board, stack, snaps>>
        /\ UNCHANGED engineVars

\* evaluate called for either colour.
E_Evaluate ==
    /\ last.op = "init"
    /\ last' = [op |-> "evaluate", black |-> evaluate(board, Black),
                white |-> evaluate(board, White)]
    /\ UNCHANGED <<board, stack, snaps>>
    /\ UNCHANGED engineVars

NextE == E_IsWinningMove \/ E_Evaluate

SpecE == InitE /\ [][NextE]_vars

\* ------------------------------------------------------------------------
\* Properties of the Board
\* ------------------------------------------------------------------------
\* C3: undoing the most recent move restores every cell, the side to move
\* and the hash key to the values they had before that move was made, for
\* one pair and for any properly nested sequence of pairs.
C3_UndoRestores ==
    [][BoardUnmakeMove => board' = snaps[Len(snaps)]]_vars

\* A nested undo has happened: two earlier moves are still on the board.
C3_Witness ==
    /\ last.op = "unmakeMove"
    /\ Len(stack) = 2
    /\ board # InitBoard

\* The XOR of the keys of all stones, and of the side key when White is to
\* move: a function of the position alone.
PositionHash(b) ==
    { i * 2 + Black : i \in b.bb[Black] } \cup { i * 2 + White : i \in b.bb[White] }
    \cup (IF b.side_to_move = White THEN {zobristSide} ELSE {})

\* C4: in every reachable state the hash key is the XOR of the keys of the
\* stones on the board, and of the side key exactly when White is to move;
\* it does not depend on the order in which the stones were played.
C4_HashIsPositional == board.hashKey = PositionHash(board)

\* Three stones played and one taken back, White to move.
C4_Witness ==
    /\ last.op = "unmakeMove"
    /\ Len(stack) = 3
    /\ board.side_to_move = White
    /\ zobristSide \in board.hashKey

\* The five cells from (x, y) on in direction d.
Segment(x, y, d) == { index(x + k * dirs[d][1], y + k * dirs[d][2]) : k \in 0 .. 4 }

\* Every five-cell segment that lies on the board.
Segments ==
    { Segment(t[1], t[2], t[3]) : t \in
        { u \in Coord \X Coord \X (1 .. 4) :
            OnBoard(u[1] + 4 * dirs[u[3]][1], u[2] + 4 * dirs[u[3]][2]) } }

\* Five cells in a row from (x, y) in direction d, all of player s.
FiveAt(b, s, x, y, d) == Segment(x, y, d) \subseteq b.bb[s]

HasFive(b, s) == \E seg \in Segments : seg \subseteq b.bb[s]

\* C10: checkWin(s) is true exactly when s has five contiguous stones on a
\* row, a column, a diagonal or an anti-diagonal.
C10_CheckWinIffFive ==
    \A s \in Players : checkWin(board, s) <=> HasFive(board, s)

\* Black has completed the anti-diagonal through the starting cross.
C10_Witness ==
    /\ checkWin(board, Black)
    /\ FiveAt(board, Black, 4, 7, 4)

\* C11: makeMove returns false exactly when the cell is outside the board or
\* holds a stone of either side, and then the cells, the side to move and
\* the hash key are what they were.
C11_RejectedMoveChangesNothing ==
    [][BoardMakeMove =>
          LET x == last'.m[1]
              y == last'.m[2]
          IN /\ last'.ok <=> getCellState(board, x, y) = 0
             /\ ~last'.ok => board' = board]_vars

\* makeMove has just returned false for a cell that holds a stone the other
\* side played.
C11_Witness ==
    /\ last.op = "makeMove"
    /\ ~last.ok
    /\ last.m \in PlayCells
    /\ index(last.m[1], last.m[2]) \in board.bb[Other(board.side_to_move)]

\* C12: a successful makeMove turns its cell from empty to the colour of the
\* side that was to move, leaves every other cell as it was and flips the
\* side to move, so that the side to move is Black exactly after an even
\* number of moves.
C12_MoveSetsOneCell ==
    (last.op = "makeMove" /\ last.ok) =>
        LET m == last.m
            before == snaps[Len(snaps)]
            p == before.side_to_move
        IN /\ getCellState(before, m[1], m[2]) = 0
           /\ \A y \in Coord, x \in Coord :
                 getCellState(board, x, y) =
                    IF <<x, y>> = m THEN p + 1 ELSE getCellState(before, x, y)
           /\ board.side_to_move = Other(p)
           /\ board.side_to_move = IF Len(stack) % 2 = 0 THEN Black ELSE White

\* The third move in a row has been made, by Black, and White is to move.
C12_Witness ==
    /\ last.op = "makeMove"
    /\ last.ok
    /\ Len(stack) = 3
    /\ getCellState(board, last.m[1], last.m[2]) = 1
    /\ board.side_to_move = White

\* C13: no cell is in the stone sets of both sides, so getCellState names
\* the one set a cell is in, or none.
C13_OneColourPerCell ==
    /\ board.bb[Black] \cap board.bb[White] = {}
    /\ \A y \in Coord, x \in Coord :
          /\ getCellState(board, x, y) = 1 <=> index(x, y) \in board.bb[Black]
          /\ getCellState(board, x, y) = 2 <=> index(x, y) \in board.bb[White]
          /\ getCellState(board, x, y) \in {0, 1, 2}

\* Five moves were made and the last one undone; a white stone stands where
\* the caller played.
C13_Witness ==
    /\ last.op = "unmakeMove"
    /\ Len(stack) = 4
    /\ \E m \in PlayCells : getCellState(board, m[1], m[2]) = 2

\* The cells that hold a stone.
StoneCells(b) == { c \in Coord \X Coord : getCellState(b, c[1], c[2]) \in {1, 2} }

\* The empty cells of the board that lie within two columns and two rows of
\* the bounding box of the stones and next to a stone, diagonals included.
BoxCandidates(b) ==
    LET stones == StoneCells(b)
        xs == { s[1] : s \in stones }
        ys == { s[2] : s \in stones }
        min_x == CHOOSE v \in xs : \A w \in xs : v <= w
        max_x == CHOOSE v \in xs : \A w \in xs : v >= w
        min_y == CHOOSE v \in ys : \A w \in ys : v <= w
        max_y == CHOOSE v \in ys : \A w \in ys : v >= w
    IN { c \in Coord \X Coord :
           /\ c \notin stones
           /\ c[1] \in (min_x - 2) .. (max_x + 2)
           /\ c[2] \in (min_y - 2) .. (max_y + 2)
           /\ \E dx \in -1 .. 1, dy \in -1 .. 1 : <<c[1] + dx, c[2] + dy>> \in stones }

\* C20: getCandidateMoves returns, in row-major order and each once, the
\* empty cells in the widened bounding box of the stones that touch a
\* stone; only (5,5) on a board without stones; all legal moves when no
\* cell qualifies.  Every move returned is an empty cell of the board.
C20_CandidatesNearStones ==
    last.op = "getCandidateMoves" =>
        LET moves == last.moves
            cells == { moves[k] : k \in 1 .. Len(moves) }
        IN /\ \A k \in 1 .. (Len(moves) - 1) :
                 index(moves[k][1], moves[k][2]) < index(moves[k + 1][1], moves[k + 1][2])
           /\ \A m \in cells : OnBoard(m[1], m[2]) /\ getCellState(board, m[1], m[2]) = 0
           /\ IF StoneCells(board) = {} THEN moves = << <<5, 5>> >>
              ELSE LET expected == BoxCandidates(board)
                   IN IF expected # {} THEN cells = expected
                      ELSE moves = getLegalMoves(board)

\* getCandidateMoves has been called with stones on the upper and the lower
\* edge: the corner (0,0) is returned and the empty cell (0,5), next to no
\* stone, is not.
C20_Witness ==
    /\ last.op = "getCandidateMoves"
    /\ \E x \in Coord : getCellState(board, x, 0) = 1
    /\ \E x \in Coord : getCellState(board, x, 11) = 2
    /\ \E k \in DOMAIN last.moves : last.moves[k] = <<0, 0>>
    /\ getCellState(board, 0, 5) = 0
    /\ \A k \in DOMAIN last.moves : last.moves[k] # <<0, 5>>

\* ------------------------------------------------------------------------
\* Properties of the ThreatSolver
\* ------------------------------------------------------------------------
\* The windows of five cells on a line: first cell and direction.
Windows ==
    { w \in Coord \X Coord \X (1 .. 4) :
        OnBoard(w[1] + 4 * dirs[w[3]][1], w[2] + 4 * dirs[w[3]][2]) }

\* Cell k of window w, k = 0..4; k = -1 and k = 5 are the cells just outside.
windowCell(w, k) == <<w[1] + k * dirs[w[3]][1], w[2] + k * dirs[w[3]][2]>>

\* getCellState of cell k of window w: -1 off the board, 0 empty, 1 Black,
\* 2 White.
windowState(b, w, k) == getCellState(b, windowCell(w, k)[1], windowCell(w, k)[2])

\* The severity window w nominates its empty cells at, for this defender; 0
\* when it nominates nothing.
nominatedSeverity(b, defender, w) ==
    LET stones == Cardinality({ k \in 0 .. 4 : windowState(b, w, k) = Other(defender) + 1 })
        blocked == \E k \in 0 .. 4 : windowState(b, w, k) = defender + 1
        openEnds == (IF windowState(b, w, -1) = 0 THEN 1 ELSE 0)
                    + (IF windowState(b, w, 5) = 0 THEN 1 ELSE 0)
    IN IF blocked THEN 0
       ELSE IF stones = 4 THEN (IF openEnds = 2 THEN 1000000 ELSE 500000)
       ELSE IF stones = 3 /\ openEnds = 2 THEN 120000
       ELSE IF stones = 3 /\ openEnds = 1 THEN 60000
       ELSE 0

\* Every (cell, severity) some window nominates.
Nominations(b, defender) ==
    UNION { LET severity == nominatedSeverity(b, defender, w)
            IN IF severity = 0 THEN {}
               ELSE { <<index(windowCell(w, k)[1], windowCell(w, k)[2]), severity>> :
                        k \in { j \in 0 .. 4 : windowState(b, w, j) = 0 } } :
            w \in Windows }

\* What the last findBlockingMoves call reported, as (cell, severity) pairs.
Reported ==
    { <<index(last.moves[k].move[1], last.moves[k].move[2]), last.moves[k].severity>> :
        k \in 1 .. Len(last.moves) }

\* The end cells of the attacker's open fours: the two empty cells of six
\* cells in a line whose middle four are attacker stones.
OpenFourEnds(b, defender) ==
    UNION { { index(windowCell(w, -1)[1], windowCell(w, -1)[2]),
              index(windowCell(w, 4)[1], windowCell(w, 4)[2]) } :
            w \in { v \in Coord \X Coord \X (1 .. 4) :
                      /\ windowState(b, v, -1) = 0
                      /\ windowState(b, v, 4) = 0
                      /\ \A k \in 0 .. 3 : windowState(b, v, k) = Other(defender) + 1 } }

\* C16: when the attacker has four contiguous stones with an empty cell
\* beyond both ends, both end cells are reported with severity 1,000,000
\* and no other cell is.
C16_OpenFourBothEnds ==
    (last.op = "findBlockingMoves" /\ OpenFourEnds(board, last.defender) # {})
        => { r[1] : r \in { q \in Reported : q[2] = 1000000 } }
              = OpenFourEnds(board, last.defender)

\* C17: every cell a window nominates is reported, with at least the
\* severity the window gives it, and every reported cell carries a severity
\* some window nominated it at.
C17_WindowClassification ==
    last.op = "findBlockingMoves" =>
        LET nominated == Nominations(board, last.defender)
            reported == Reported
        IN /\ \A n \in nominated : \E r \in reported : r[1] = n[1] /\ r[2] >= n[2]
           /\ reported \subseteq nominated

\* A four with one open end, an open three and a three with one open end
\* were all reported by one call.
C17_Witness ==
    /\ last.op = "findBlockingMoves"
    /\ {500000, 120000, 60000} \subseteq { r[2] : r \in Reported }

\* C18: each cell is reported once, with the largest severity any window
\* nominated it at.
C18_MaxSeverityPerCell ==
    last.op = "findBlockingMoves" =>
        LET nominated == Nominations(board, last.defender)
            reported == Reported
        IN /\ Cardinality({ r[1] : r \in reported }) = Len(last.moves)
           /\ \A r \in reported : \A n \in nominated : n[1] = r[1] => n[2] <= r[2]

\* The corner cell, nominated at 500,000 by the four on the upper edge and
\* at 60,000 by the three on the left edge, is reported at 500,000.
C18_Witness ==
    /\ last.op = "findBlockingMoves"
    /\ {<<0, 500000>>, <<0, 60000>>} \subseteq Nominations(board, last.defender)
    /\ <<0, 500000>> \in Reported

\* C19: the vector is in order of non-increasing severity, and it is empty
\* when no window nominates a cell.
C19_SortedBySeverity ==
    last.op = "findBlockingMoves" =>
        /\ \A k \in 1 .. (Len(last.moves) - 1) :
              last.moves[k].severity >= last.moves[k + 1].severity
        /\ \A k \in 1 .. Len(last.moves) :
              last.moves[1].severity >= last.moves[k].severity
        /\ Nominations(board, last.defender) = {} => last.moves = << >>

\* A vector of at least four cells of three different severities, whose
\* first cell is not the first in row-major order.
C19_Witness ==
    /\ last.op = "findBlockingMoves"
    /\ Len(last.moves) >= 4
    /\ Cardinality({ r[2] : r \in Reported }) >= 3
    /\ \E k \in 2 .. Len(last.moves) :
          index(last.moves[k].move[1], last.moves[k].move[2])
             < index(last.moves[1].move[1], last.moves[1].move[2])

\* ------------------------------------------------------------------------
\* Properties of findBestMove
\* ------------------------------------------------------------------------
\* findBestMove has returned.
Returned == result.path \notin {"none", "running"}

\* The cell of a linear index.
cellOf(i) == <<i % N, i \div N>>

\* The empty cells at which a stone of s would complete five in a row: the
\* missing cell of every five-cell segment that holds four stones of s and
\* no other stone.
WinningCells(b, s) ==
    UNION { seg \ b.bb[s] : seg \in
              { g \in Segments :
                  /\ Cardinality(g \ b.bb[s]) = 1
                  /\ (g \ b.bb[s]) \cap b.bb[Other(s)] = {} } }

\* The first cell of a non-empty set in row-major order.
FirstRowMajor(S) == cellOf(CHOOSE i \in S : \A j \in S : i <= j)

\* C1: the move findBestMove returns has both coordinates in [0,12) and
\* names a cell that is empty on the board at the time of return.
C1_ReturnsEmptyCell ==
    Returned => /\ OnBoard(result.move[1], result.move[2])
                /\ ~isOccupied(board, result.move[1], result.move[2])

\* The moves made and not yet undone by the active calls, outermost first:
\* one for every call that is waiting for, or has just got, the value of a
\* recursive call.
pendingMoves ==
    LET waiting == SelectSeq(frames, LAMBDA f :
                       f.pc \in {"root_ret", "rescore_ret", "child_ret"})
    IN [k \in 1 .. Len(waiting) |->
          IF waiting[k].fn = "findBestMove"
          THEN waiting[k].rootMoves[waiting[k].idx]
          ELSE waiting[k].ordered[waiting[k].idx]]

\* C2: on every return path of findBestMove the cells, the side to move and
\* the hash key are those of the board the call was made with; during the
\* call the board differs from it by exactly the moves of the calls still
\* active, so that each call has undone its own move when it returns.
C2_BoardRestored ==
    /\ Returned => board = ghost.entry
    /\ frames # << >> =>
          board = playMoves(ghost.entry, pendingMoves, 1, Len(pendingMoves))

\* The deadline passed with three alphaBeta calls active, and findBestMove
\* has returned.
C2_Witness ==
    /\ result.path = "timeout"
    /\ ghost.expiredAt >= 4
    /\ board = ghost.entry
    /\ ghost.myColor = ghost.entry.side_to_move

\* C5: when the deadline passes before depth 1 is completed, findBestMove
\* returns the first move of the ordered root list.
C5_FallbackIsFirstCandidate ==
    (result.path = "timeout" /\ ghost.completed = << >>)
        => result.move = ghost.rootFirst

\* C6: when the deadline passes after at least one depth has been
\* completed, the move returned is the best move recorded at the end of the
\* last completed depth.
C6_TimeoutReturnsLastCompleted ==
    (result.path = "timeout" /\ ghost.completed # << >>)
        => result.move = ghost.completed[Len(ghost.completed)]

\* The deadline passed in depth 3 or later, while the running best move of
\* that depth was another move than the one recorded before.
C6_Witness ==
    /\ result.path = "timeout"
    /\ Len(ghost.completed) >= 2
    /\ ghost.interrupted # ghost.completed[Len(ghost.completed)]
    /\ ghost.myColor = ghost.entry.side_to_move

\* C7: when some empty cell completes five in a row for mySide, findBestMove
\* returns the first such cell in row-major order, without entering the
\* tree search.
C7_ImmediateWinTaken ==
    (Returned /\ WinningCells(ghost.entry, ghost.myColor) # {})
        => /\ result.move = FirstRowMajor(WinningCells(ghost.entry, ghost.myColor))
           /\ result.path = "win"
           /\ nodes = 0
           /\ maxDepthReached = 0

\* The side to move had two winning cells, the other side had one too, and
\* the call has returned.
C7_Witness ==
    /\ Returned
    /\ Cardinality(WinningCells(ghost.entry, ghost.myColor)) = 2
    /\ WinningCells(ghost.entry, Other(ghost.myColor)) # {}
    /\ ghost.myColor = ghost.entry.side_to_move

\* evaluate(board, mySide) after the tentative makeMove on cell i.
blockScore(b, myColor, i) ==
    evaluate(makeMove(b, cellOf(i)[1], cellOf(i)[2]), myColor)

\* The cell of S with the highest blockScore, the first one in row-major
\* order among equals.
BestBlockCell(b, myColor, S) ==
    cellOf(CHOOSE i \in S : \A j \in S :
              \/ blockScore(b, myColor, i) > blockScore(b, myColor, j)
              \/ (blockScore(b, myColor, i) = blockScore(b, myColor, j) /\ i <= j))

\* C8: when mySide has no winning cell and the opponent has some, the move
\* returned is one of the opponent's winning cells, the one with the highest
\* evaluation after its tentative placement, the first in row-major order on
\* ties (hence the cell itself when there is exactly one).
C8_ForcedBlock ==
    (/\ Returned
     /\ WinningCells(ghost.entry, ghost.myColor) = {}
     /\ WinningCells(ghost.entry, Other(ghost.myColor)) # {})
        => /\ result.path = "block"
           /\ index(result.move[1], result.move[2])
                 \in WinningCells(ghost.entry, Other(ghost.myColor))
           /\ result.move = BestBlockCell(ghost.entry, ghost.myColor,
                                WinningCells(ghost.entry, Other(ghost.myColor)))

\* The opponent had two winning cells and the block returned is not the
\* first of them in row-major order.
C8_Witness ==
    /\ result.path = "block"
    /\ Cardinality(WinningCells(ghost.entry, Other(ghost.myColor))) = 2
    /\ result.move # FirstRowMajor(WinningCells(ghost.entry, Other(ghost.myColor)))
    /\ ghost.myColor = ghost.entry.side_to_move

\* C14: on a board without a candidate move findBestMove returns the move
\* (-1,-1) from the test of the empty root list, the board as it was and
\* no search started.
C14_FullBoardReturnsSentinel ==
    (Returned /\ getCandidateMoves(ghost.entry) = << >>)
        => /\ result.move = <<-1, -1>>
           /\ result.path = "nomoves"
           /\ board = ghost.entry
           /\ nodes = 0

\* findBestMove has returned on the board with all 144 cells taken.
C14_Witness ==
    /\ Returned
    /\ getLegalMoves(ghost.entry) = << >>
    /\ countStones(board, Black) + countStones(board, White) = N * N
    /\ result.move = NoMove

\* C15: until a findBestMove call enters alphaBeta for the first time the
\* transposition table is empty, every killer slot holds (-1,-1) and every
\* history score is 0, whatever earlier calls left behind, and the root
\* moves of the call are ordered with these empty tables.
C15_TablesFreshEachCall ==
    /\ nodes = 0 => /\ transTable = emptyTT
                    /\ killerMoves = emptyKillers
                    /\ history = historyReset
    /\ (frames # << >> /\ nodes = 0) =>
          frames[1].rootMoves =
              orderMoves(ghost.entry, ghost.myColor, ghost.myColor, 0,
                         emptyKillers, historyReset, tieRule).moves

\* A second call, made while all three tables held entries of the call
\* before it, has returned the winning move of the side that was asked.
C15_Witness ==
    /\ ghost.stale
    /\ last.op = "TURN"
    /\ result.path = "win"
    /\ ghost.myColor = White

\* The largest and the smallest element of a non-empty set of integers.
SetMax(S) == CHOOSE v \in S : \A w \in S : v >= w
SetMin(S) == CHOOSE v \in S : \A w \in S : v <= w

\* Plain minimax of remaining depth over getCandidateMoves, with the
\* terminal values of alphaBeta in an iteration of depth maxDepth and the
\* static evaluation at the leaves.
RECURSIVE Minimax(_, _, _, _, _)
Minimax(b, depth, currentPlayer, myColor, maxDepth) ==
    IF checkWin(b, myColor) THEN 100000000 - (maxDepth - depth)
    ELSE IF checkWin(b, Other(myColor)) THEN -100000000 + (maxDepth - depth)
    ELSE IF depth <= 0 THEN evaluate(b, myColor)
    ELSE LET c == getCandidateMoves(b)
             vals == { Minimax(makeMove(b, c[k][1], c[k][2]), depth - 1,
                               Other(currentPlayer), myColor, maxDepth) :
                         k \in 1 .. Len(c) }
         IN IF c = << >> THEN evaluate(b, myColor)
            ELSE IF currentPlayer = myColor THEN SetMax(vals)
            ELSE SetMin(vals)

\* A root call of alphaBeta, made with the window (INT_MIN+1, INT_MAX-1),
\* has returned and the deadline has not passed.
RootCallReturned ==
    /\ frames # << >>
    /\ Top.fn = "findBestMove"
    /\ Top.pc \in {"root_ret", "rescore_ret"}
    /\ ~expired

\* C9: the value a full-window call of alphaBeta returns, the deadline not
\* reached, is the plain minimax value of the position for the same
\* remaining depth, whatever the tables held when the call was made.
C9_AlphaBetaIsMinimax ==
    RootCallReturned
        => retval = Minimax(board, Top.depth - 1, Other(Top.myColor), Top.myColor,
                            maxDepthReached)

\* A root call of the fourth iteration or a later one has returned after a
\* stored bound was read from the transposition table.
C9_Witness ==
    /\ RootCallReturned
    /\ Top.depth >= 4
    /\ ghost.boundUsed
    /\ transTable # emptyTT

\* The number of stones on the board.
totalStones(b) == Cardinality(b.bb[Black]) + Cardinality(b.bb[White])

\* C21: findBestMove returns a book move exactly when the board holds four
\* stones, the side to move is mySide and mySide is Black; the move is the
\* first empty cell of (7,7),(7,4),(4,7),(4,4), which is (7,7) from the
\* initial position, and the search is not entered.
C21_BookMoveOnlyAtStart ==
    Returned =>
        /\ result.path = "book" <=> /\ totalStones(ghost.entry) = 4
                                    /\ ghost.entry.side_to_move = ghost.myColor
                                    /\ ghost.myColor = Black
        /\ result.path = "book" =>
              /\ \E k \in 1 .. 4 :
                    LET preferred == << <<7, 7>>, <<7, 4>>, <<4, 7>>, <<4, 4>> >>
                    IN /\ result.move = preferred[k]
                       /\ getCellState(ghost.entry, preferred[k][1], preferred[k][2]) = 0
                       /\ \A j \in 1 .. (k - 1) :
                             getCellState(ghost.entry, preferred[j][1], preferred[j][2]) # 0
              /\ ghost.entry = InitBoard => result.move = <<7, 7>>
              /\ nodes = 0
              /\ board = ghost.entry

\* Black has asked for a move on the initial position and got (7,7).
C21_Witness ==
    /\ Returned
    /\ ghost.entry = InitBoard
    /\ ghost.myColor = Black
    /\ result.move = <<7, 7>>
    /\ result.path = "book"

\* C22: the flag of the entry alphaBeta stores compares the node's value with
\* the alpha and beta the call received from its caller: upper bound at or
\* below that alpha, lower bound at or above that beta, exact otherwise; the
\* entry replaces the one the key had.
C22_FlagAgainstCallerWindow ==
    [][(/\ transTable' # transTable /\ transTable' # emptyTT
        /\ ghost.myColor = ghost.entry.side_to_move) =>
          /\ frames # << >>
          /\ Top.fn = "alphaBeta"
          /\ Top.key \in DOMAIN transTable'
          /\ \A k \in DOMAIN transTable' \ {Top.key} :
                 k \in DOMAIN transTable /\ transTable'[k] = transTable[k]
          /\ transTable'[Top.key].depth = Top.depth
          /\ transTable'[Top.key].score = retval'
          /\ transTable'[Top.key].flag =
                 ttFlag(retval', Top.alphaIn, Top.betaIn)]_vars

\* C23: once the deadline has passed, the alphaBeta call that reads the
\* clock next, at its entry, at the top of its move loop or after a child
\* call, returns 0, makes no further move and stores no transposition entry.
C23_ExpiredCallReturnsZero ==
    [][(/\ expired
        /\ ghost.myColor = ghost.entry.side_to_move
        /\ frames # << >>
        /\ Top.fn = "alphaBeta"
        /\ frames' # frames) =>
          /\ frames' = Popped
          /\ retval' = 0
          /\ transTable' = transTable]_vars

\* The active alphaBeta calls, outermost first.
abFrames == SelectSeq(frames, LAMBDA f : f.fn = "alphaBeta")

\* C24: in a call made for the side to move, every alphaBeta call (and the
\* orderMoves call it makes) has currentPlayer equal to the side to move of
\* the board it gets, every makeMove of the search is accepted, and the
\* board is the position of the call with the moves of the active calls on
\* it, each taken back by the call that made it, last made first.
C24_StrictLifo ==
    (frames # << >> /\ ghost.myColor = ghost.entry.side_to_move) =>
        LET pm == pendingMoves
            n == Len(pm)
            line == [k \in 0 .. n |-> playMoves(ghost.entry, pm, 1, k)]
        IN /\ board = line[n]
           /\ \A k \in 1 .. n :
                 /\ makeMoveOk(line[k - 1], pm[k][1], pm[k][2])
                 /\ getCellState(line[k], pm[k][1], pm[k][2])
                        = 1 + line[k - 1].side_to_move
                 /\ unmakeMove(line[k], pm[k][1], pm[k][2]) = line[k - 1]
           /\ Len(abFrames) \in {n - 1, n}
           /\ \A k \in 1 .. Len(abFrames) :
                 /\ abFrames[k].ply = k
                 /\ abFrames[k].currentPlayer = line[k].side_to_move
           /\ (Top.pc \in {"loop_top", "root_top"} /\ ~expired) =>
                 LET moves == IF Top.fn = "alphaBeta" THEN Top.ordered ELSE Top.rootMoves
                 IN Top.idx <= Len(moves) =>
                       makeMoveOk(board, moves[Top.idx][1], moves[Top.idx][2])

\* Three moves of the search are on the board and the fourth call is at its
\* entry, in a call made for the side to move.
C24_Witness ==
    /\ frames # << >>
    /\ ghost.myColor = ghost.entry.side_to_move
    /\ Len(pendingMoves) = 3
    /\ Top.fn = "alphaBeta" /\ Top.pc = "enter"
    /\ Top.currentPlayer = board.side_to_move
    /\ board # ghost.entry

\* alphaBeta leaves its move loop on a cutoff: the step after a child call
\* in which the call returns although the deadline has not passed.
Cutoff ==
    /\ frames # << >>
    /\ Top.fn = "alphaBeta" /\ Top.pc = "child_ret"
    /\ ~expired
    /\ frames' = Popped

\* C25: a cutoff by move m at ply p < 64 leaves the killer slots of p alone
\* when m is the first killer of p, and otherwise moves the first killer to
\* the second slot and puts m in the first; no other step but the reset at
\* the start of a call writes the table.  The two slots of a ply are equal
\* only when both are (-1,-1), and the table has the plies 0..63 only.
C25_KillerSlots ==
    /\ [](/\ DOMAIN killerMoves = 0 .. (MAX_PLY - 1)
          /\ \A p \in DOMAIN killerMoves :
                killerMoves[p][1] = killerMoves[p][2] => killerMoves[p][1] = NoMove
          /\ \A k \in DOMAIN frames :
                frames[k].fn = "alphaBeta" => frames[k].ply < MAX_PLY)
    /\ [][/\ Cutoff =>
                LET p == Top.ply
                    m == Top.ordered[Top.idx]
                IN IF killerMoves[p][1] = m
                   THEN killerMoves' = killerMoves
                   ELSE /\ killerMoves'[p] = <<m, killerMoves[p][1]>>
                        /\ \A q \in DOMAIN killerMoves \ {p} :
                              killerMoves'[q] = killerMoves[q]
          /\ killerMoves' # killerMoves => Cutoff \/ killerMoves' = emptyKillers]_vars

\* At some ply two different moves have cut off one after the other, in a
\* call made for the side to move.
C25_Witness ==
    /\ ghost.myColor = ghost.entry.side_to_move
    /\ \E p \in DOMAIN killerMoves :
          /\ killerMoves[p][1] # NoMove
          /\ killerMoves[p][2] # NoMove
          /\ killerMoves[p][1] # killerMoves[p][2]

\* C26: an alphaBeta call entered on a position in which mySide has five in
\* a row returns 100000000 minus its ply, which is 100000000 - (maxDepthReached
\* - depth) and more than 90000000; one entered on a position in which the
\* opponent has five returns the negative of that.  A win nearer to the
\* root is worth more, a loss nearer to the root less.
C26_TerminalScoreByPly ==
    /\ \A k \in DOMAIN frames :
          frames[k].fn = "alphaBeta" => maxDepthReached - frames[k].depth = frames[k].ply
    /\ (/\ frames # << >>
        /\ Top.pc \in {"root_ret", "rescore_ret", "child_ret"}
        /\ ~expired) =>
          LET ply == Len(pendingMoves)
          IN /\ HasFive(board, ghost.myColor) =>
                   /\ retval = 100000000 - ply
                   /\ retval > WIN_THRESHOLD
                   /\ retval < 100000000 - (ply - 1)
             /\ (~HasFive(board, ghost.myColor) /\ HasFive(board, Other(ghost.myColor))) =>
                   /\ retval = -(100000000 - ply)
                   /\ retval > -(100000000 - (ply - 1))

\* The call at ply 3 has found five in a row for mySide and returned
\* 99999997 to the call at ply 2.
C26_Witness ==
    /\ frames # << >>
    /\ Top.pc = "child_ret"
    /\ ~expired
    /\ Len(pendingMoves) = 3
    /\ HasFive(board, ghost.myColor)
    /\ retval = 99999997
    /\ ghost.myColor = ghost.entry.side_to_move

\* The empty cells at which isWinningMove holds for player.
winningMoves(b, player) ==
    { index(c[1], c[2]) : c \in { d \in Coord \X Coord :
                                    isWinningMove(b, player, d[1], d[2]) } }

\* C27: the cells findBlockingMoves reports for defender D at 500,000 or
\* more are exactly the empty cells at which isWinningMove holds for the
\* opponent of D; so when that opponent has no winning cell, which is when
\* findBestMove gets to the urgent pattern defence, the front of the vector
\* is below 500,000 and that step does not return.
C27_CriticalIffWinningCell ==
    last.op = "findBlockingMoves" =>
        LET critical == { r[1] : r \in { q \in Reported : q[2] >= CRITICAL_SEVERITY } }
            wins == winningMoves(board, Other(last.defender))
        IN /\ critical = wins
           /\ \A i \in wins : getCellState(board, i % N, i \div N) = 0
           /\ wins = {} =>
                 \/ last.moves = << >>
                 \/ last.moves[1].severity < CRITICAL_SEVERITY

\* Black's four on the upper edge is open at one end only: the end cell
\* is reported at 500,000 and is Black's one winning cell.
C27_Witness ==
    /\ last.op = "findBlockingMoves"
    /\ last.defender = White
    /\ last.moves # << >>
    /\ last.moves[1].severity = SIMPLE_FOUR
    /\ Cardinality(winningMoves(board, Black)) = 1
    /\ getCellState(board, 6, 0) = 2

\* C28: when the transposition probe of an alphaBeta call finds an entry for
\* the position, the depth stored in it is at most the remaining depth of
\* the call; the entry passes the test entry.depth >= depth only when the
\* two are equal, that is when it was stored in the running iteration.
C28_StoredDepthNotDeeper ==
    (/\ frames # << >>
     /\ Top.fn = "alphaBeta" /\ Top.pc = "enter"
     /\ board.hashKey \in DOMAIN transTable) =>
        LET entry == transTable[board.hashKey]
        IN /\ entry.depth <= Top.depth
           /\ entry.depth >= Top.depth =>
                 entry.depth + Top.ply = maxDepthReached

\* A call finds the entry the iteration before stored for its position,
\* with a depth one less than its own, in a call made for the side to move.
C28_Witness ==
    /\ frames # << >>
    /\ Top.fn = "alphaBeta" /\ Top.pc = "enter"
    /\ ~expired
    /\ Top.depth >= 2
    /\ board.hashKey \in DOMAIN transTable
    /\ transTable[board.hashKey].depth = Top.depth - 1
    /\ ghost.myColor = ghost.entry.side_to_move

\* The board with a stone of player p put on the empty cell (x, y).
withStone(b, p, x, y) == [b EXCEPT !.bb[p] = @ \cup {index(x, y)}]

\* C29: on a board where player p has no five in a row, isWinningMove(p, x,
\* y) is true exactly when (x, y) is an empty cell of the board and checkWin
\* (p) is true once a stone of p stands there; it is false for occupied
\* cells and for cells outside the board.
C29_WinningMoveIffCheckWin ==
    (last.op = "isWinningMove" /\ ~checkWin(board, last.player)) =>
        \A c \in ProbeCells :
            c \in last.cells <=>
                /\ OnBoard(c[1], c[2])
                /\ getCellState(board, c[1], c[2]) = 0
                /\ checkWin(withStone(board, last.player, c[1], c[2]), last.player)

\* isWinningMove has been called for Black on the line of six with a gap:
\* the gap is the one cell it is true for.
C29_Witness ==
    /\ last.op = "isWinningMove"
    /\ last.player = Black
    /\ board = GapOfSix
    /\ last.cells = { <<3, 0>> }

\* C30: evaluate(board, Black) = -evaluate(board, White); when exactly one
\* side has an open four the side that has it gets 90000000 and the other
\* -90000000, and when both or neither have one the value is the difference
\* of the pattern and shape scores.  All values fit a 32-bit int.
C30_EvaluateZeroSum ==
    last.op = "evaluate" =>
        LET blackEval == evaluatePlayer(board, Black)
            whiteEval == evaluatePlayer(board, White)
            difference == (blackEval.patternScore - whiteEval.patternScore)
                          + (longestBias(blackEval) - longestBias(whiteEval))
        IN /\ last.black = -last.white
           /\ (blackEval.hasOpenFourDouble /\ ~whiteEval.hasOpenFourDouble) =>
                 last.black = 90000000 /\ last.white = -90000000
           /\ (whiteEval.hasOpenFourDouble /\ ~blackEval.hasOpenFourDouble) =>
                 last.white = 90000000 /\ last.black = -90000000
           /\ (blackEval.hasOpenFourDouble <=> whiteEval.hasOpenFourDouble) =>
                 last.black = difference
           /\ \A v \in {blackEval.patternScore, whiteEval.patternScore,
                        longestBias(blackEval), longestBias(whiteEval),
                        difference, -difference} :
                 v >= INT_MIN /\ v <= INT_MAX

\* evaluate has been called on a board where Black alone has an open four.
C30_Witness ==
    /\ last.op = "evaluate"
    /\ last.black = 90000000
    /\ last.white = -90000000
    /\ board \notin Scenarios

=============================================================================
